---- MODULE Spec2Model ----
(***************************************************************************)
(* Model of idinfo's detection-and-decoding engine: the 19 format          *)
(* decoders (CanParse / Parse / Generate), the decoder registry, and the   *)
(* ParseID policy (forced mode and auto-detect mode) as driven by main.    *)
(*                                                                         *)
(* Strings are sequences of one-character strings.  Integers wider than    *)
(* TLC's machine integers (uint64 timestamps, 96..160-bit identifiers) are *)
(* sequences of decimal digits, most significant first, without leading    *)
(* zeros (zero is <<0>>).  Times are whole seconds or milliseconds since   *)
(* the Unix epoch, in UTC.                                                 *)
(***************************************************************************)
EXTENDS Integers, Sequences, FiniteSets, TLC

(***************************************************************************)
(* Strings                                                                 *)
(***************************************************************************)
Chars(s) == [i \in 1..Len(s) |-> SubSeq(s, i, i)]

SetOf(seq) == {seq[i] : i \in 1..Len(seq)}

DigitSeq == Chars("0123456789")
LowerSeq == Chars("abcdefghijklmnopqrstuvwxyz")
UpperSeq == Chars("ABCDEFGHIJKLMNOPQRSTUVWXYZ")
Digit == SetOf(DigitSeq)
Lower == SetOf(LowerSeq)
Upper == SetOf(UpperSeq)
AlNum == Digit \cup Lower \cup Upper
HexChar == Digit \cup SetOf(Chars("abcdefABCDEF"))
Space == {" ", "\t"}

\* strings.IndexRune / strings.IndexByte: 0-based position, -1 when absent
IndexOf(alphabet, c) ==
  IF c \in SetOf(alphabet)
    THEN (CHOOSE i \in 1..Len(alphabet) :
            alphabet[i] = c /\ \A j \in 1..(i - 1) : alphabet[j] # c) - 1
    ELSE -1

UpperChar(c) == IF c \in Lower THEN UpperSeq[IndexOf(LowerSeq, c) + 1] ELSE c
LowerChar(c) == IF c \in Upper THEN LowerSeq[IndexOf(UpperSeq, c) + 1] ELSE c
ToUpper(s) == [i \in 1..Len(s) |-> UpperChar(s[i])]
ToLower(s) == [i \in 1..Len(s) |-> LowerChar(s[i])]

AllIn(s, set) == \A i \in 1..Len(s) : s[i] \in set
Contains(s, c) == \E i \in 1..Len(s) : s[i] = c
Count(s, c) == Cardinality({i \in 1..Len(s) : s[i] = c})

RECURSIVE TrimLeft(_, _)
TrimLeft(s, set) ==
  IF s # <<>> /\ Head(s) \in set THEN TrimLeft(Tail(s), set) ELSE s

RECURSIVE TrimRight(_, _)
TrimRight(s, set) ==
  IF s # <<>> /\ s[Len(s)] \in set
    THEN TrimRight(SubSeq(s, 1, Len(s) - 1), set) ELSE s

TrimSpace(s) == TrimRight(TrimLeft(s, Space), Space)

\* strings.ReplaceAll(s, c, "")
Remove(s, c) == SelectSeq(s, LAMBDA x : x # c)

Repeat(c, n) == [i \in 1..n |-> c]

\* lexicographic s <= t for strings over one ordered alphabet
RECURSIVE LexLeq(_, _, _)
LexLeq(s, t, alphabet) ==
  IF s = <<>> THEN TRUE
  ELSE IF t = <<>> THEN FALSE
  ELSE IF Head(s) = Head(t) THEN LexLeq(Tail(s), Tail(t), alphabet)
  ELSE IndexOf(alphabet, Head(s)) < IndexOf(alphabet, Head(t))

(***************************************************************************)
(* Unbounded naturals as decimal digit sequences                           *)
(***************************************************************************)
\* without leading zeros
Norm(n) ==
  IF \A i \in 1..Len(n) : n[i] = 0 THEN <<0>>
  ELSE SubSeq(n, CHOOSE i \in 1..Len(n) : n[i] # 0 /\ \A j \in 1..(i - 1) : n[j] = 0,
              Len(n))

RECURSIVE SmallDigits(_)
SmallDigits(k) == IF k < 10 THEN <<k>> ELSE SmallDigits(k \div 10) \o <<k % 10>>

Num(k) == SmallDigits(k)

\* The arithmetic below works through the digits four at a time.
DigitAt(n, i) == IF i >= 1 /\ i <= Len(n) THEN n[i] ELSE 0
\* the value of the (up to) four digits of n that end at position hi
Val4(n, hi) ==
  DigitAt(n, hi) + 10 * DigitAt(n, hi - 1) + 100 * DigitAt(n, hi - 2)
    + 1000 * DigitAt(n, hi - 3)
\* the last k digits of v
LastDigits(v, k) == [i \in 1..k |-> (v \div (10 ^ (k - i))) % 10]

\* n * m + a for a machine-sized m and a
RECURSIVE MulAddRec(_, _, _, _, _)
MulAddRec(n, hi, m, carry, acc) ==
  IF hi <= 0 THEN SmallDigits(carry) \o acc
  ELSE LET v == Val4(n, hi) * m + carry
           a == LastDigits(v, 4) \o acc
       IN IF Len(a) > 0 THEN MulAddRec(n, hi - 4, m, v \div 10000, a) ELSE <<>>

MulAdd(n, m, a) == Norm(MulAddRec(n, Len(n), m, a, <<>>))

\* quotient and remainder of n by a machine-sized d
RECURSIVE DivRec(_, _, _, _, _)
DivRec(n, i, d, rem, acc) ==
  IF i > Len(n) THEN [q |-> Norm(acc), r |-> rem]
  ELSE LET k == IF Len(n) - i + 1 < 4 THEN Len(n) - i + 1 ELSE 4
           v == rem * (10 ^ k) + Val4(SubSeq(n, i, i + k - 1), k)
           a == acc \o LastDigits(v \div d, k)
       IN IF Len(a) > 0 THEN DivRec(n, i + k, d, v % d, a) ELSE [q |-> <<0>>, r |-> 0]

DivMod(n, d) == DivRec(n, 1, d, 0, <<0>>)

Less(a, b) ==
  LET x == Norm(a)
      y == Norm(b)
  IN IF Len(x) # Len(y) THEN Len(x) < Len(y)
     ELSE \E i \in 1..Len(x) : x[i] < y[i] /\ \A j \in 1..(i - 1) : x[j] = y[j]

Leq(a, b) == ~Less(b, a)

RECURSIVE AddRec(_, _, _, _, _)
AddRec(a, b, k, carry, acc) ==
  IF k >= Len(a) /\ k >= Len(b) THEN SmallDigits(carry) \o acc
  ELSE LET v == Val4(a, Len(a) - k) + Val4(b, Len(b) - k) + carry
           r == LastDigits(v, 4) \o acc
       IN IF Len(r) > 0 THEN AddRec(a, b, k + 4, v \div 10000, r) ELSE <<>>

Add(a, b) == Norm(AddRec(a, b, 0, 0, <<>>))

\* a - b for a >= b
RECURSIVE SubRec(_, _, _, _, _)
SubRec(a, b, k, borrow, acc) ==
  IF k >= Len(a) THEN acc
  ELSE LET v == Val4(a, Len(a) - k) - Val4(b, Len(b) - k) - borrow
           r == LastDigits(IF v < 0 THEN v + 10000 ELSE v, 4) \o acc
       IN IF Len(r) > 0 THEN SubRec(a, b, k + 4, IF v < 0 THEN 1 ELSE 0, r) ELSE <<>>

Sub(a, b) == Norm(SubRec(Norm(a), Norm(b), 0, 0, <<>>))

AbsDiff(a, b) == IF Less(a, b) THEN Sub(b, a) ELSE Sub(a, b)

\* the value of a digit string over an alphabet (digit values by position)
RECURSIVE FromBaseRec(_, _, _, _)
FromBaseRec(s, i, alphabet, acc) ==
  IF i > Len(s) THEN acc
  ELSE LET a == MulAdd(acc, Len(alphabet), IndexOf(alphabet, s[i]))
       IN IF Len(a) > 0 THEN FromBaseRec(s, i + 1, alphabet, a) ELSE <<>>

FromBase(s, alphabet) == FromBaseRec(s, 1, alphabet, <<0>>)

\* the digits of n over an alphabet, most significant first ("" for zero)
RECURSIVE ToBaseRec(_, _, _)
ToBaseRec(n, alphabet, acc) ==
  IF n = <<0>> THEN acc
  ELSE LET qr == DivMod(n, Len(alphabet))
           a == <<alphabet[qr.r + 1]>> \o acc
       IN IF Len(a) > 0 THEN ToBaseRec(qr.q, alphabet, a) ELSE <<>>

ToBase(n, alphabet) == ToBaseRec(Norm(n), alphabet, <<>>)

\* strconv.ParseUint(s, 10, 64) succeeds: digits only, value < 2^64
TwoPow63 == <<9,2,2,3,3,7,2,0,3,6,8,5,4,7,7,5,8,0,8>>
TwoPow64 == <<1,8,4,4,6,7,4,4,0,7,3,7,0,9,5,5,1,6,1,6>>
DecValue(s) == Norm([i \in 1..Len(s) |-> IndexOf(DigitSeq, s[i])])
ParseUintOk(s) == s # <<>> /\ AllIn(s, Digit) /\ Less(DecValue(s), TwoPow64)

\* fmt.Sprintf("%0<w>x", n)
PadLeft(s, w, c) == IF Len(s) < w THEN Repeat(c, w - Len(s)) \o s ELSE s
HexLowerSeq == Chars("0123456789abcdef")
FormatHex(n, w) ==
  PadLeft(IF Norm(n) = <<0>> THEN <<"0">> ELSE ToBase(n, HexLowerSeq), w, "0")
FormatDec(n) == [i \in 1..Len(Norm(n)) |-> DigitSeq[Norm(n)[i] + 1]]

(***************************************************************************)
(* Byte values of characters (Go compares and subtracts bytes)             *)
(***************************************************************************)
\* bytes 32..126 in order; byte 96 (grave accent) is not used by any input and
\* its place is held by a second space, which IndexOf never returns
AsciiSeq ==
  Chars(" !\"#$%&'()*+,-./0123456789:;<=>?@ABCDEFGHIJKLMNOPQRSTUVWXYZ[\\]^_ abcdefghijklmnopqrstuvwxyz{|}~")
Ord(c) == IF c = "\t" THEN 9 ELSE IndexOf(AsciiSeq, c) + 32

(***************************************************************************)
(* UUID    (internal/parsers/uuid.go, github.com/google/uuid v1.6.0)       *)
(***************************************************************************)
UUIDHexPos == <<0, 2, 4, 6, 9, 11, 14, 16, 19, 21, 24, 26, 28, 30, 32, 34>>
UrnPrefix == Chars("urn:uuid:")

\* uuid.Parse: the 32 hex digits of the 16 bytes, or <<>> on error.
\* Lengths 36, 36+9 (urn:uuid:), 36+2 (first byte dropped) and 32 are read.
UUIDLibBody(s) ==
  IF Len(s) = 36 THEN s
  ELSE IF Len(s) = 45 /\ ToLower(SubSeq(s, 1, 9)) = UrnPrefix THEN SubSeq(s, 10, 45)
  ELSE IF Len(s) = 38 THEN SubSeq(s, 2, 38)
  ELSE <<>>

UUIDLibParse(s) ==
  IF Len(s) = 32
    THEN IF AllIn(s, HexChar) THEN ToLower(s) ELSE <<>>
  ELSE LET b == UUIDLibBody(s)
       IN IF b = <<>> THEN <<>>
          ELSE IF b[9] # "-" \/ b[14] # "-" \/ b[19] # "-" \/ b[24] # "-" THEN <<>>
          ELSE IF \E k \in 1..16 :
                    b[UUIDHexPos[k] + 1] \notin HexChar \/ b[UUIDHexPos[k] + 2] \notin HexChar
                 THEN <<>>
          ELSE ToLower([i \in 1..32 |-> b[UUIDHexPos[(i + 1) \div 2] + 1 + ((i + 1) % 2)]])

\* UUID.String(): xxxxxxxx-xxxx-xxxx-xxxx-xxxxxxxxxxxx, lower case
UUIDString(h) ==
  SubSeq(h, 1, 8) \o <<"-">> \o SubSeq(h, 9, 12) \o <<"-">> \o SubSeq(h, 13, 16)
    \o <<"-">> \o SubSeq(h, 17, 20) \o <<"-">> \o SubSeq(h, 21, 32)

HexVal(c) == IndexOf(HexLowerSeq, LowerChar(c))

UUIDCanParse(input) ==
  LET cleaned == Remove(input, "-")
  IN /\ Len(cleaned) = 32
     /\ AllIn(cleaned, HexChar)
     /\ UUIDLibParse(input) # <<>>

\* fmt.Sprintf("Unknown version %d", version)
UnknownVersion ==
  <<"Unknown version 0", "Unknown version 1", "Unknown version 2", "Unknown version 3",
    "Unknown version 4", "Unknown version 5", "Unknown version 6", "Unknown version 7",
    "Unknown version 8", "Unknown version 9", "Unknown version 10", "Unknown version 11",
    "Unknown version 12", "Unknown version 13", "Unknown version 14", "Unknown version 15">>

UUIDVersionLabel(h) ==
  LET version == HexVal(h[13])
  IN CASE version = 1 -> "1 (timestamp and MAC address)"
       [] version = 2 -> "2 (DCE security)"
       [] version = 3 -> "3 (namespace name based with MD5)"
       [] version = 4 -> "4 (random)"
       [] version = 5 -> "5 (namespace name based with SHA-1)"
       [] version = 6 -> "6 (reordered timestamp and MAC address)"
       [] version = 7 -> "7 (sortable timestamp and random)"
       [] version = 8 -> "8 (custom)"
       [] OTHER -> IF AllIn(h, {"0"}) THEN "Nil UUID"
                   ELSE IF AllIn(h, {"f"}) THEN "Max UUID"
                   ELSE UnknownVersion[version + 1]

\* an entropy that counts every bit of the identifier
UUIDEntropyAllBits(h) == {128}

UUIDEntropy(h) ==
  LET version == HexVal(h[13])
  IN CASE version \in {1, 6} -> {14}
       [] version = 2 -> {62}
       [] version \in {3, 4, 5, 8} -> {122}
       [] version = 7 -> {74}
       [] OTHER -> {}

(***************************************************************************)
(* Decoded results (types.IDInfo).  A nil pointer field is the empty set,  *)
(* a set one is a singleton.  A time is sec seconds (negated when neg) plus *)
(* nsec nanoseconds since the Unix epoch.                                  *)
(***************************************************************************)
Time(sec, nsec) == [neg |-> FALSE, sec |-> sec, nsec |-> nsec]

\* the last k (at most 9) decimal digits of n as a machine integer
RECURSIVE LowDigits(_, _, _)
LowDigits(n, i, acc) ==
  IF i > Len(n) THEN acc ELSE LowDigits(n, i + 1, acc * 10 + n[i])

\* quotient and remainder of n by 10^k
DivPow10(n, k) ==
  IF Len(n) <= k THEN [q |-> <<0>>, r |-> LowDigits(n, 1, 0)]
  ELSE [q |-> SubSeq(n, 1, Len(n) - k), r |-> LowDigits(SubSeq(n, Len(n) - k + 1, Len(n)), 1, 0)]

\* time.Unix(sec, 0), time.UnixMilli, time.UnixMicro, time.Unix(0, nsec) for
\* a non-negative argument
UnixSeconds(n) == Time(Norm(n), 0)
UnixMilli(n) == Time(DivPow10(Norm(n), 3).q, DivPow10(Norm(n), 3).r * 1000000)
UnixMicro(n) == Time(DivPow10(Norm(n), 6).q, DivPow10(Norm(n), 6).r * 1000)
UnixNano(n) == Time(DivPow10(Norm(n), 9).q, DivPow10(Norm(n), 9).r)

\* n >> k
RECURSIVE ShiftRight(_, _)
ShiftRight(n, k) ==
  IF k = 0 THEN n
  ELSE IF k >= 16 THEN ShiftRight(DivMod(n, 65536).q, k - 16)
  ELSE DivMod(n, 2 ^ k).q

\* the big-endian value of a byte sequence
RECURSIVE FromBytesRec(_, _, _)
FromBytesRec(bytes, i, acc) ==
  IF i > Len(bytes) THEN acc
  ELSE LET a == MulAdd(acc, 256, bytes[i])
       IN IF Len(a) > 0 THEN FromBytesRec(bytes, i + 1, a) ELSE <<>>

FromBytes(bytes) == FromBytesRec(bytes, 1, <<0>>)

\* UUID.Time() of a version-1 layout, a count of 100ns steps, read by Parse
\* as nanoseconds; version 7 carries milliseconds in its first six bytes
UUIDDateTime(h) ==
  LET version == HexVal(h[13])
  IN CASE version = 1 ->
            {UnixNano(FromBase(SubSeq(h, 14, 16) \o SubSeq(h, 9, 12) \o SubSeq(h, 1, 8),
                               HexLowerSeq))}
       [] version = 7 -> {UnixMilli(FromBase(SubSeq(h, 1, 12), HexLowerSeq))}
       [] OTHER -> {}

UUIDVariant(h) ==
  LET b == HexVal(h[17])
  IN IF b \in 8..11 THEN "RFC 4122"
     ELSE IF b \in 12..13 THEN "Microsoft GUID"
     ELSE IF b \in 14..15 THEN "Future"
     ELSE "NCS (Network Computing System)"

Err == [ok |-> FALSE]
Ok(info) == [ok |-> TRUE, info |-> info]

\* Parser names the decoder that built the record; it is not a field of
\* types.IDInfo
Info(parser, idType, version, standard, size, entropy, dateTime, extra) ==
  [Parser |-> parser, IDType |-> idType, Version |-> version,
   Standard |-> standard, Size |-> size, Entropy |-> entropy,
   DateTime |-> dateTime, Extra |-> extra]

\* the time go-tsid extracts is left to the library
InLibrary == {"library"}

UUIDParse(input) ==
  LET result(h) ==
        IF h = <<>> THEN Err
        ELSE Ok(Info("UUID", "UUID (RFC-9562)", UUIDVersionLabel(h), UUIDString(h),
                     128, UUIDEntropy(h), UUIDDateTime(h), [variant |-> UUIDVariant(h)]))
  IN result(UUIDLibParse(input))

(***************************************************************************)
(* ULID    (internal/parsers/ulid.go, github.com/oklog/ulid/v2 v2.1.1)     *)
(***************************************************************************)
CrockfordSeq == Chars("0123456789ABCDEFGHJKMNPQRSTVWXYZ")
Crockford == SetOf(CrockfordSeq)

\* ^[0-7][0-9A-HJKMNP-TV-Z]{25}$
ULIDCanParse(input) ==
  /\ Len(input) = 26
  /\ input[1] \in SetOf(Chars("01234567"))
  /\ AllIn(input, Crockford)

\* ulid's decoding table: Crockford digits in either case, 255 otherwise
ULIDDec(c) ==
  IF UpperChar(c) \in Crockford THEN IndexOf(CrockfordSeq, UpperChar(c)) ELSE 255

RECURSIVE BitOr(_, _)
BitOr(a, b) ==
  IF a = 0 THEN b
  ELSE IF b = 0 THEN a
  ELSE 2 * BitOr(a \div 2, b \div 2) + (IF a % 2 = 1 \/ b % 2 = 1 THEN 1 ELSE 0)

Shl(x, k) == (x * (2 ^ k)) % 256
Shr(x, k) == x \div (2 ^ k)

\* ulid.Parse is the lenient parser: it checks the length and that the first
\* byte is not above '7', and looks no character up for validity.
ULIDLibParseOk(s) == Len(s) = 26 /\ Ord(s[1]) <= Ord("7")

\* the 16 bytes ulid.Parse assembles from the table values
ULIDBytes(s) ==
  LET d(i) == ULIDDec(s[i + 1])
      five(k) == <<BitOr(Shl(d(k), 3), Shr(d(k + 1), 2)),
                   BitOr(BitOr(Shl(d(k + 1), 6), Shl(d(k + 2), 1)), Shr(d(k + 3), 4)),
                   BitOr(Shl(d(k + 3), 4), Shr(d(k + 4), 1)),
                   BitOr(BitOr(Shl(d(k + 4), 7), Shl(d(k + 5), 2)), Shr(d(k + 6), 3)),
                   BitOr(Shl(d(k + 6), 5), d(k + 7))>>
  IN <<BitOr(Shl(d(0), 5), d(1))>> \o five(2) \o five(10) \o five(18)

\* ULID.String(): 26 Crockford digits of the 128 bits
ULIDString(bytes) == PadLeft(ToBase(FromBytes(bytes), CrockfordSeq), 26, "0")

ULIDParse(input) ==
  IF ~ULIDLibParseOk(input) THEN Err
  ELSE LET result(u) ==
             Ok(Info("ULID",
                     "ULID (Universally Unique Lexicographically Sortable Identifier)",
                     "", ULIDString(u), 128, {80}, {UnixMilli(FromBytes(SubSeq(u, 1, 6)))},
                     [encoding |-> "Crockford Base32", sortable |-> "true"]))
       IN result(ULIDBytes(input))

(***************************************************************************)
(* ObjectID    (internal/parsers/objectid.go, mongo-driver primitive)      *)
(***************************************************************************)
\* ^[0-9a-fA-F]{24}$
ObjectIDCanParse(input) == Len(input) = 24 /\ AllIn(input, HexChar)

\* the w bytes of n < 2^(8w), big-endian
ToBytes(n, w) == [i \in 1..w |-> DivMod(ShiftRight(n, 8 * (w - i)), 256).r] \o <<>>

\* hex.EncodeToString
EncodeToString(bytes) ==
  [i \in 1..(2 * Len(bytes)) |->
     HexLowerSeq[(IF i % 2 = 1 THEN bytes[(i + 1) \div 2] \div 16
                  ELSE bytes[i \div 2] % 16) + 1]] \o <<>>

\* a slicing that takes the machine identifier one byte early
ComponentsOneByteEarly(bytes) ==
  [machine_bytes |-> EncodeToString(SubSeq(bytes, 4, 6)),
   process_bytes |-> EncodeToString(SubSeq(bytes, 8, 9)),
   counter_value |-> bytes[10] * 65536 + bytes[11] * 256 + bytes[12],
   timestamp_precision |-> "second"]

\* the components Parse of ObjectID and of Xid cut out of the 12 bytes (here
\* numbered from 1): the machine identifier bytes[4:7] and the process
\* identifier bytes[7:9] in hexadecimal, which are Node1 and Node2, and the
\* counter bytes[9..11], which is Sequence
Components(bytes) ==
  [machine_bytes |-> EncodeToString(SubSeq(bytes, 5, 7)),
   process_bytes |-> EncodeToString(SubSeq(bytes, 8, 9)),
   counter_value |-> bytes[10] * 65536 + bytes[11] * 256 + bytes[12],
   timestamp_precision |-> "second"]

\* oid[:] of primitive.ObjectIDFromHex: the 12 bytes of the 24 hexadecimal
\* characters, of either case
ObjectIDBytes(input) == ToBytes(FromBase(ToLower(input), HexLowerSeq), 12)

\* primitive.ObjectIDFromHex: 24 characters that hex-decode
ObjectIDParse(input) ==
  IF ~(Len(input) = 24 /\ AllIn(input, HexChar)) THEN Err
  ELSE Ok(Info("ObjectID", "MongoDB ObjectId", "", ToLower(input), 96, {40},
               {UnixSeconds(FromBase(ToLower(SubSeq(input, 1, 8)), HexLowerSeq))},
               Components(ObjectIDBytes(input))))

(***************************************************************************)
(* KSUID    (internal/parsers/ksuid.go, github.com/segmentio/ksuid v1.0.4) *)
(***************************************************************************)
Base62Seq == Chars("0123456789ABCDEFGHIJKLMNOPQRSTUVWXYZabcdefghijklmnopqrstuvwxyz")
TwoPow160 ==
  <<1,4,6,1,5,0,1,6,3,7,3,3,0,9,0,2,9,1,8,2,0,3,6,8,4,8,3,2,7,1,6,2,8,3,0,1,9,6,5,5,9,3,2,5,4,2,9,7,6>>

\* 1400000000, the KSUID epoch in Unix seconds
KSUIDEpoch == <<1,4,0,0,0,0,0,0,0,0>>

\* ksuid's base62Value: no validity check, byte arithmetic wraps
Base62Value(c) ==
  IF c \in Digit THEN Ord(c) - Ord("0")
  ELSE IF c \in Upper THEN 10 + (Ord(c) - Ord("A"))
  ELSE (36 + (Ord(c) - Ord("a")) + 256) % 256

RECURSIVE KSUIDValueRec(_, _, _)
KSUIDValueRec(s, i, acc) ==
  IF i > Len(s) THEN acc
  ELSE LET a == MulAdd(acc, 62, Base62Value(s[i]))
       IN IF Len(a) > 0 THEN KSUIDValueRec(s, i + 1, a) ELSE <<>>

\* ksuid.Parse: 27 bytes whose base-62 value fits in 20 bytes
KSUIDLibParseOk(s) == Len(s) = 27 /\ Less(KSUIDValueRec(s, 1, <<0>>), TwoPow160)

\* KSUID.String(): base 62, left-padded with '0' to 27 characters
KSUIDString(s) == PadLeft(ToBase(KSUIDValueRec(s, 1, <<0>>), Base62Seq), 27, "0")

\* ^[0-9A-Za-z]{27}$
KSUIDCanParse(input) ==
  /\ Len(input) = 27
  /\ AllIn(input, AlNum)
  /\ KSUIDLibParseOk(input)

KSUIDParse(input) ==
  IF ~KSUIDLibParseOk(input) THEN Err
  ELSE Ok(Info("KSUID", "KSUID (K-Sortable Unique Identifier)", "",
               KSUIDString(input), 160, {128},
               {UnixSeconds(Add(ShiftRight(KSUIDValueRec(input, 1, <<0>>), 128), KSUIDEpoch))},
               [encoding |-> "Base62", epoch |-> "2014-05-13T16:53:20Z"]))

(***************************************************************************)
(* Xid    (github.com/rs/xid v1.6.0)                                       *)
(***************************************************************************)
XidSeq == Chars("0123456789abcdefghijklmnopqrstuv")

\* xid.FromString: 20 characters of the alphabet, and the last one carries
\* only the 96th bit (its four padding bits are zero): '0' or 'g'
XidLibParseOk(s) ==
  /\ Len(s) = 20
  /\ AllIn(s, SetOf(XidSeq))
  /\ IndexOf(XidSeq, s[20]) % 16 = 0

\* ^[0-9a-v]{20}$
XidCanParse(input) ==
  /\ Len(input) = 20
  /\ AllIn(input, SetOf(XidSeq))
  /\ XidLibParseOk(input)

\* x.Bytes() of xid.FromString: the 20 characters carry 100 bits, of which
\* the first 96 are the 12 bytes
XidBytes(input) == ToBytes(ShiftRight(FromBase(input, XidSeq), 4), 12)

XidParse(input) ==
  IF ~XidLibParseOk(input) THEN Err
  ELSE LET result(c) ==
             Ok(Info("Xid", "Xid (globally unique sortable id)", "", input, 96, {56},
                     {UnixSeconds(ShiftRight(FromBase(input, XidSeq), 68))},
                     [encoding |-> "Base32 (Crockford)", sortable |-> "true",
                      timestamp_precision |-> c.timestamp_precision,
                      machine_bytes |-> c.machine_bytes,
                      process_bytes |-> c.process_bytes,
                      counter_value |-> c.counter_value]))
       IN result(Components(XidBytes(input)))

(***************************************************************************)
(* CUID    (internal/parsers/cuid.go, github.com/nrednav/cuid2 v1.1.0)     *)
(***************************************************************************)
\* cuid2.IsCuid: 2..32 characters matching ^[a-z][0-9a-z]+$
CuidLibIsCuid(s) ==
  /\ Len(s) >= 2 /\ Len(s) <= 32
  /\ s[1] \in Lower
  /\ AllIn(s, Lower \cup Digit)

CUIDCanParse(input) ==
  /\ ~(Len(input) < 4 \/ Len(input) > 32)
  /\ input # <<>> /\ AllIn(input, Lower \cup Digit)
  /\ CuidLibIsCuid(input)

\* int(float64(len) * 5.2)
CUIDEntropy(n) == (n * 52) \div 10

CUIDParse(input) ==
  IF ~CUIDCanParse(input) THEN Err
  ELSE Ok(Info("CUID", "CUID v2 (Collision-resistant Unique Identifier)", "", input,
               Len(input) * 6, {CUIDEntropy(Len(input))}, {},
               [version |-> "2", encoding |-> "Base36 (lowercase)"]))

(***************************************************************************)
(* SCRU128    (internal/parsers/scru128.go, github.com/scru128/go-scru128) *)
(***************************************************************************)
ScruDigits == Digit \cup SetOf(Chars("ABCDEFGHIJKLMNOPQRSTUVabcdefghijklmnopqrstuv"))

\* scru128.Parse: 26 base-32 digits, the first at most 7 (128 bits)
Scru128LibParseOk(s) ==
  /\ Len(s) = 26
  /\ s[1] \in SetOf(Chars("01234567"))
  /\ AllIn(s, ScruDigits)

\* ^[0-9A-Za-z_-]{26}$
SCRU128CanParse(input) ==
  /\ Len(input) = 26
  /\ AllIn(input, AlNum \cup {"_", "-"})
  /\ Scru128LibParseOk(input)

\* a decoder that stamps the counter too with the clock of the call
SCRU128ParseStamped(input, now) ==
  IF ~Scru128LibParseOk(input) THEN Err
  ELSE Ok(Info("SCRU128",
               "SCRU128 (Sortable, Clock-based, Realm-specific, Unique identifier)",
               "", input, 128, {26}, {UnixMilli(now)},
               [encoding |-> "Base36", counter_value |-> FormatDec(now)]))

\* the decoded time is the wall clock at the call (now, in milliseconds)
SCRU128Parse(input, now) ==
  IF ~Scru128LibParseOk(input) THEN Err
  ELSE Ok(Info("SCRU128",
               "SCRU128 (Sortable, Clock-based, Realm-specific, Unique identifier)",
               "", input, 128, {26}, {UnixMilli(now)},
               [encoding |-> "Base36", counter_value |-> "0"]))

SequenceLimit == 1000000000
\* a counter that stays where it is
SCRU128SameSequence(seq) == seq

\* scru128Sequence++, wrapping to 0 at the limit
SCRU128NextSequence(seq) == IF seq + 1 >= SequenceLimit THEN 0 ELSE seq + 1
\* fmt.Sprintf("%013x%09x", now, scru128Sequence)
SCRU128Generate(now, seq) == FormatHex(now, 13) \o FormatHex(Num(seq), 9)

(***************************************************************************)
(* TSID    (github.com/rushysloth/go-tsid v1.0.6)                          *)
(***************************************************************************)
\* tsidRegex on the upper-cased input: digits and every letter but U
TSIDChars == Digit \cup (Upper \ {"U"})

TSIDCanParse(input) ==
  LET trimmed == TrimSpace(input)
  IN /\ Len(trimmed) = 13
     /\ AllIn(ToUpper(trimmed), TSIDChars)

\* tsid.FromString is taken to return a TSID for every string CanParse
\* accepts; the identifiers of Inputs of that shape begin with a digit, so
\* their 65th bit is clear
TSIDParse(input) ==
  LET trimmed == TrimSpace(input)
  IN IF ~TSIDCanParse(trimmed) THEN Err
     ELSE Ok(Info("TSID", "TSID (Time-Sorted Unique Identifier)", "",
                  ToUpper(trimmed), 64, {22}, InLibrary,
                  [encoding |-> "Crockford Base32", length |-> "13 characters"]))

(***************************************************************************)
(* TypeID    (internal/parsers/typeid.go, go.jetify.com/typeid/v2)         *)
(***************************************************************************)
TypeIDSuffixSeq == Chars("0123456789abcdefghjkmnpqrstvwxyz")


\* strings.LastIndex(s, "_"), 1-based here; 0 when absent
LastUnderscore(s) ==
  IF Contains(s, "_")
    THEN CHOOSE i \in 1..Len(s) : s[i] = "_" /\ \A j \in (i + 1)..Len(s) : s[j] # "_"
    ELSE 0

TypeIDPrefixOf(s) == SubSeq(s, 1, LastUnderscore(s) - 1)
TypeIDSuffixOf(s) == SubSeq(s, LastUnderscore(s) + 1, Len(s))

\* typeid.Parse: prefix_suffix split at the last underscore; the prefix is at
\* most 63 of [a-z_] and neither starts nor ends with an underscore; the
\* suffix is 26 lower-case base-32 digits, the first at most 7
TypeIDLibParseOk(s) ==
  LET prefix == TypeIDPrefixOf(s)
      suffix == TypeIDSuffixOf(s)
  IN /\ LastUnderscore(s) # 1
     /\ Len(prefix) <= 63
     /\ AllIn(prefix, Lower \cup {"_"})
     /\ (prefix # <<>> => prefix[1] # "_" /\ prefix[Len(prefix)] # "_")
     /\ Len(suffix) = 26
     /\ AllIn(suffix, SetOf(TypeIDSuffixSeq))
     /\ suffix[1] \in SetOf(Chars("01234567"))

TypeIDCanParse(input) ==
  /\ ~(Len(input) < 27 \/ ~Contains(input, "_"))
  /\ TypeIDLibParseOk(input)

TypeIDParse(input) ==
  LET trimmed == TrimSpace(input)
  IN IF ~TypeIDLibParseOk(trimmed) THEN Err
     ELSE Ok(Info("TypeID", "TypeID", "", trimmed, 128, {128}, {},
                  [type_prefix |-> TypeIDPrefixOf(trimmed),
                   suffix |-> TypeIDSuffixOf(trimmed)]))

(***************************************************************************)
(* NUID    (github.com/nats-io/nuid v1.0.1)                                *)
(***************************************************************************)
\* ^[0-9A-Za-z]{22}$ and a first character other than '0'
NUIDCanParse(input) ==
  /\ Len(input) = 22
  /\ AllIn(input, AlNum)
  /\ input[1] # "0"

NUIDParse(input) ==
  LET trimmed == TrimSpace(input)
  IN IF ~NUIDCanParse(trimmed) THEN Err
     ELSE Ok(Info("NUID", "NUID (NATS Unique Identifier)", "", trimmed, 132, {132},
                  {}, [alphabet |-> "Base62 (0-9A-Za-z)", length |-> "22 characters"]))

(***************************************************************************)
(* ShortUUID   (internal/parsers/shortuuid.go, lithammer/shortuuid/v4)     *)
(***************************************************************************)
ShortUUIDSeq == Chars("23456789ABCDEFGHJKLMNPQRSTUVWXYZabcdefghijkmnopqrstuvwxyz")
TwoPow128 ==
  <<3,4,0,2,8,2,3,6,6,9,2,0,9,3,8,4,6,3,4,6,3,3,7,4,6,0,7,4,3,1,7,6,8,2,1,1,4,5,6>>

Reverse(s) == [i \in 1..Len(s) |-> s[Len(s) + 1 - i]]

\* DefaultEncoder.Decode: base-57 digits, least significant first, of a value
\* that fits in 128 bits
ShortUUIDLibDecodeOk(s) ==
  /\ AllIn(s, SetOf(ShortUUIDSeq))
  /\ Less(FromBase(Reverse(s), ShortUUIDSeq), TwoPow128)

ShortUUIDCanParse(input) ==
  /\ Len(input) = 22
  /\ ShortUUIDLibDecodeOk(input)

ShortUUIDParse(input) ==
  LET trimmed == TrimSpace(input)
  IN IF ~ShortUUIDLibDecodeOk(trimmed) THEN Err
     ELSE Ok(Info("ShortUUID", "ShortUUID", "", trimmed, 128, {122}, {},
                  [alphabet |-> "Base57 (no ambiguous chars)", length |-> "22 characters"]))

(***************************************************************************)
(* Sqids    (github.com/sqids/sqids-go v0.4.1, default options)            *)
(***************************************************************************)
\* the default alphabet after the constructor's shuffle
SqidsAlphabet == Chars("fwjBhEY2uczNPDiloxmvISCrytaJO4d71T0W3qnMZbXVHg6eR8sAQ5KkpLUGF9")

\* Decode rotates the alphabet to the prefix character and reverses it: the
\* first separator is the character cyclically before the prefix
SqidsSeparator(prefix) ==
  SqidsAlphabet[((IndexOf(SqidsAlphabet, prefix) + Len(SqidsAlphabet) - 1) % Len(SqidsAlphabet)) + 1]

\* Decode returns at least one number: every character is in the alphabet and
\* the first chunk after the prefix is not empty
SqidsDecodes(id) ==
  /\ id # <<>>
  /\ AllIn(id, SetOf(SqidsAlphabet))
  /\ Len(id) >= 2
  /\ id[2] # SqidsSeparator(id[1])

SqidsCanParse(input) == ~(Len(input) = 0) /\ SqidsDecodes(input)

\* int(float64(len) * sqidsLogBase2Float(62)); the approximation gives 10.8324
SqidsEntropy(n) == (n * 108324) \div 10000

SqidsParse(input) ==
  LET trimmed == TrimSpace(input)
  IN IF ~SqidsCanParse(trimmed) THEN Err
     ELSE Ok(Info("Sqids", "Sqids", "", trimmed, Len(trimmed) * 6,
                  {SqidsEntropy(Len(trimmed))}, {},
                  [format |-> "Sqids (Hashids successor)"]))

\* shuffle: one swap for each position from the front, with the position
\* counted from the back
RECURSIVE SqidsShuffleRec(_, _, _)
SqidsShuffleRec(chars, i, j) ==
  IF j <= 0 THEN chars
  ELSE LET r == (i * j + Ord(chars[i + 1]) + Ord(chars[j + 1])) % Len(chars)
           swapped == [chars EXCEPT ![i + 1] = chars[r + 1], ![r + 1] = chars[i + 1]]
       IN IF Len(swapped) > 0 THEN SqidsShuffleRec(swapped, i + 1, j - 1) ELSE <<>>

SqidsShuffle(chars) == SqidsShuffleRec(chars, 0, Len(chars) - 1)

\* the alphabet rotated to start at offset
SqidsRotate(offset) ==
  SubSeq(SqidsAlphabet, offset + 1, Len(SqidsAlphabet)) \o SubSeq(SqidsAlphabet, 1, offset)

\* toID: the digits of num over chars, at least one
RECURSIVE SqidsToID(_, _, _)
SqidsToID(num, chars, acc) ==
  LET a == <<chars[(num % Len(chars)) + 1]>> \o acc
  IN IF num \div Len(chars) = 0 THEN a ELSE SqidsToID(num \div Len(chars), chars, a)

\* the offset Encode derives from the numbers
RECURSIVE SqidsOffset(_, _, _)
SqidsOffset(numbers, i, acc) ==
  IF i > Len(numbers) THEN acc % Len(SqidsAlphabet)
  ELSE SqidsOffset(numbers, i + 1,
                   acc + Ord(SqidsAlphabet[(numbers[i] % Len(SqidsAlphabet)) + 1]) + (i - 1))

\* the loop of Encode: each number over the alphabet without its first
\* character, that character as the separator, a shuffle after each separator
RECURSIVE SqidsEncodeRec(_, _, _, _)
SqidsEncodeRec(numbers, i, alphabet, ret) ==
  LET part == ret \o SqidsToID(numbers[i], Tail(alphabet), <<>>)
      next == SqidsShuffle(alphabet)
      sofar == Append(part, alphabet[1])
  IN IF i < Len(numbers)
       THEN IF Len(next) > 0 /\ Len(sofar) > 0
              THEN SqidsEncodeRec(numbers, i + 1, next, sofar)
              ELSE <<>>
       ELSE part

\* Encode with no minimum length; an identifier that holds a word of the
\* blocklist is encoded again, which the identifiers here do not
SqidsEncode(numbers) ==
  LET rotated == SqidsRotate(SqidsOffset(numbers, 1, Len(numbers)))
      alphabet == Reverse(rotated) \o <<>>
  IN IF Len(alphabet) > 0 THEN SqidsEncodeRec(numbers, 1, alphabet, <<rotated[1]>>) ELSE <<>>

\* the loop of Decode: the chunk up to the separator is a number, an empty
\* chunk ends the decoding
RECURSIVE SqidsDecodeRec(_, _, _)
SqidsDecodeRec(id, alphabet, ret) ==
  IF id = <<>> THEN ret
  ELSE LET k == IndexOf(id, alphabet[1]) + 1
           chunk == IF k = 0 THEN id ELSE SubSeq(id, 1, k - 1)
           rest == IF k = 0 THEN <<>> ELSE SubSeq(id, k + 1, Len(id))
           next == IF k = 0 THEN alphabet ELSE SqidsShuffle(alphabet)
           numbers == Append(ret, FromBase(chunk, Tail(alphabet)))
       IN IF chunk = <<>> THEN ret
          ELSE IF Len(next) > 0 /\ Len(numbers) > 0 /\ Len(rest) >= 0
                 THEN SqidsDecodeRec(rest, next, numbers)
                 ELSE <<>>

\* Decode: the numbers of id, none when a character is not of the alphabet
SqidsDecode(id) ==
  IF id = <<>> \/ ~AllIn(id, SetOf(SqidsAlphabet)) THEN <<>>
  ELSE LET alphabet == Reverse(SqidsRotate(IndexOf(SqidsAlphabet, id[1]))) \o <<>>
       IN IF Len(alphabet) > 0 THEN SqidsDecodeRec(Tail(id), alphabet, <<>>) ELSE <<>>

\* Encode([42, 123, 7890]) under the default options
SqidsGenerate == SqidsEncode(<<42, 123, 7890>>)

(***************************************************************************)
(* NanoID    (internal/parsers/nanoid.go)                                  *)
(***************************************************************************)
nanoIDAlphabet ==
  Chars("_-0123456789abcdefghijklmnopqrstuvwxyzABCDEFGHIJKLMNOPQRSTUVWXYZ")
NanoIDMinLen == 6
NanoIDMaxLen == 255

NanoIDCanParse(input) ==
  /\ ~(Len(input) < NanoIDMinLen \/ Len(input) > NanoIDMaxLen)
  /\ input # <<>> /\ AllIn(input, AlNum \cup {"_", "-"})
  /\ \A i \in 1..Len(input) : input[i] \in SetOf(nanoIDAlphabet)

\* ceil(len * log2(64))
NanoIDParse(input) ==
  IF ~NanoIDCanParse(input) THEN Err
  ELSE Ok(Info("NanoID", "Nano ID", "", input, Len(input) * 8, {Len(input) * 6}, {},
               [alphabet_size |-> "64", url_safe |-> "true"]))

(***************************************************************************)
(* Snowflake    (github.com/bwmarrin/snowflake v0.3.0)                     *)
(***************************************************************************)
\* snowflake.Epoch, milliseconds
SnowflakeEpoch == <<1,2,8,8,8,3,4,9,7,4,6,5,7>>
\* 2^42 - snowflake.Epoch
SnowflakeWrap == <<3,1,0,9,2,1,1,5,3,6,4,4,7>>

\* ^\d{10,19}$ and strconv.ParseUint
SnowflakeCanParse(input) ==
  /\ Len(input) >= 10 /\ Len(input) <= 19
  /\ AllIn(input, Digit)
  /\ ParseUintOk(input)

\* time.UnixMilli of -k for k > 0
UnixMilliBefore(k) ==
  LET qr == DivPow10(Norm(k), 3)
  IN IF qr.r = 0 THEN [neg |-> TRUE, sec |-> qr.q, nsec |-> 0]
     ELSE [neg |-> TRUE, sec |-> Add(qr.q, <<1>>), nsec |-> (1000 - qr.r) * 1000000]

\* ID.Time(): (int64(id) >> 22) + Epoch; an id of 2^63 or more is a negative
\* int64 and the shift is arithmetic
SnowflakeTime(id) ==
  LET shifted(q) ==
        IF Less(id, TwoPow63) THEN UnixMilli(Add(q, SnowflakeEpoch))
        ELSE IF Less(q, SnowflakeWrap) THEN UnixMilliBefore(Sub(SnowflakeWrap, q))
        ELSE UnixMilli(Sub(q, SnowflakeWrap))
  IN shifted(ShiftRight(id, 22))

\* a Parse that reads its input with strconv.ParseInt, a signed 64-bit integer
SnowflakeParseSigned(input) ==
  IF ~ParseUintOk(input) \/ Leq(TwoPow63, DecValue(input)) THEN Err
  ELSE Ok(Info("Snowflake", "Snowflake", "", input, 64, {22},
               {SnowflakeTime(DecValue(input))},
               [node_id |-> DivMod(ShiftRight(DecValue(input), 12), 1024).r,
                sequence_number |-> DivMod(DecValue(input), 4096).r]))

SnowflakeParse(input) ==
  IF ~ParseUintOk(input) THEN Err
  ELSE LET id == DecValue(input)
       IN Ok(Info("Snowflake", "Snowflake", "", input, 64, {22}, {SnowflakeTime(id)},
                  [node_id |-> DivMod(ShiftRight(id, 12), 1024).r,
                   sequence_number |-> DivMod(id, 4096).r]))

(***************************************************************************)
(* UnixTime    (internal/parsers/unixtime.go)                              *)
(***************************************************************************)
\* ^(0|\d{10,19})$ and strconv.ParseUint
UnixTimeCanParse(input) ==
  /\ \/ input = <<"0">>
     \/ Len(input) >= 10 /\ Len(input) <= 19 /\ AllIn(input, Digit)
  /\ ParseUintOk(input)

\* 2101-01-01T00:00:00Z in Unix seconds: the first second past year 2100
Year2101 == <<4,1,3,3,9,8,0,8,0,0>>

\* candidate.time.Year() >= 1970 && candidate.time.Year() <= 2100 (UTC), for a
\* time at or after the epoch
YearInRange(time) == Less(time.sec, Year2101)

\* int64(timestampUint), with the top bit cleared when it is set
UnixTimeStamp(v) == IF Leq(TwoPow63, v) THEN Sub(v, TwoPow63) ELSE v

UnixTimeCandidates(timestamp) ==
  <<[time |-> UnixSeconds(timestamp), unit |-> "seconds", precision |-> "second"],
    [time |-> UnixMilli(timestamp), unit |-> "milliseconds", precision |-> "millisecond"],
    [time |-> UnixMicro(timestamp), unit |-> "microseconds", precision |-> "microsecond"],
    [time |-> UnixNano(timestamp), unit |-> "nanoseconds", precision |-> "nanosecond"]>>

\* a loop that keeps a candidate farther from now than the one it holds
RECURSIVE UnixTimePickFarthest(_, _, _, _, _)
UnixTimePickFarthest(candidates, nowSec, i, best, minDiff) ==
  IF i > Len(candidates) THEN best
  ELSE LET diff == AbsDiff(candidates[i].time.sec, nowSec)
       IN IF YearInRange(candidates[i].time) /\ (best = 0 \/ Less(minDiff, diff))
            THEN UnixTimePickFarthest(candidates, nowSec, i + 1, i, diff)
            ELSE UnixTimePickFarthest(candidates, nowSec, i + 1, best, minDiff)

\* the loop over the candidates: best is 0 (none yet) or the index held in t,
\* minDiff the distance in whole seconds of that candidate from now (the
\* initial minDiff, MaxInt64, exceeds every in-range distance)
RECURSIVE UnixTimePick(_, _, _, _, _)
UnixTimePick(candidates, nowSec, i, best, minDiff) ==
  IF i > Len(candidates) THEN best
  ELSE LET diff == AbsDiff(candidates[i].time.sec, nowSec)
       IN IF YearInRange(candidates[i].time) /\ (best = 0 \/ Less(diff, minDiff))
            THEN UnixTimePick(candidates, nowSec, i + 1, i, diff)
            ELSE UnixTimePick(candidates, nowSec, i + 1, best, minDiff)

\* t.IsZero() after the loop: the seconds reading is the default
UnixTimeChoice(timestamp, nowSec) ==
  LET held(candidates, best) == IF best = 0 THEN candidates[1] ELSE candidates[best]
      pick(candidates) == held(candidates, UnixTimePick(candidates, nowSec, 1, 0, <<0>>))
  IN pick(UnixTimeCandidates(timestamp))

UnixTimeIDType(unit) ==
  CASE unit = "seconds" -> "Unix timestamp (seconds)"
    [] unit = "milliseconds" -> "Unix timestamp (milliseconds)"
    [] unit = "microseconds" -> "Unix timestamp (microseconds)"
    [] unit = "nanoseconds" -> "Unix timestamp (nanoseconds)"

\* now is the wall clock in milliseconds; now.Unix() its whole seconds
UnixTimeParse(input, now) ==
  IF ~ParseUintOk(input) THEN Err
  ELSE LET result(c) ==
             Ok(Info("UnixTime", UnixTimeIDType(c.unit), "", input, 64, {0}, {c.time},
                     [unit |-> c.unit, precision |-> c.precision]))
       IN result(UnixTimeChoice(UnixTimeStamp(DecValue(input)), DivPow10(now, 3).q))

\* info.Hex of the result of Parse: fmt.Sprintf("%016x", uint64(timestamp))
UnixTimeHex(input) == FormatHex(UnixTimeStamp(DecValue(input)), 16)

\* fmt.Sprintf("%d", time.Now().Unix())
UnixTimeGenerate(now) == FormatDec(DivPow10(now, 3).q)

(***************************************************************************)
(* HashHex    (internal/parsers/hashhex.go)                                *)
(***************************************************************************)
HashHexMinLen == 8

HashHexCanParse(input) ==
  /\ input # <<>> /\ AllIn(input, HexChar)
  /\ ~(Len(input) < HashHexMinLen)
  /\ ~(Len(input) % 2 # 0)

\* the label of a length the table does not have, for every length
HashHexTypeGeneric(n) == <<"Hex-encoded Hash (%d bits)", (n \div 2) * 8>>

\* commonHashLengths, and the label of the lengths it does not have
HashHexType(n) ==
  CASE n = 32 -> <<"Hex-encoded MD5">>
    [] n = 40 -> <<"Hex-encoded SHA-1">>
    [] n = 56 -> <<"Hex-encoded SHA-224">>
    [] n = 64 -> <<"Hex-encoded SHA-256">>
    [] n = 96 -> <<"Hex-encoded SHA-384">>
    [] n = 128 -> <<"Hex-encoded SHA-512">>
    [] OTHER -> <<"Hex-encoded Hash (%d bits)", (n \div 2) * 8>>

\* hex.DecodeString of the lower-cased input: an even number of hex digits
HashHexParse(input) ==
  IF ~(Len(input) % 2 = 0 /\ AllIn(input, HexChar)) THEN Err
  ELSE Ok(Info("HashHex", HashHexType(Len(input)), "", ToUpper(ToLower(input)),
               (Len(input) \div 2) * 8, {(Len(input) \div 2) * 8}, {},
               [encoding |-> "hexadecimal", byte_length |-> Len(input) \div 2]))

\* 32 bytes, byte i being i * 7 % 256, hex-encoded
HashHexGenerate ==
  [k \in 1..64 |->
     LET b == (((k - 1) \div 2) * 7) % 256
     IN HexLowerSeq[(IF k % 2 = 1 THEN b \div 16 ELSE b % 16) + 1]]

(***************************************************************************)
(* Base58    (in-repository encoder and decoder)                           *)
(***************************************************************************)
base58Alphabet == Chars("123456789ABCDEFGHJKLMNPQRSTUVWXYZabcdefghijkmnopqrstuvwxyz")
Base58Letters == SetOf(base58Alphabet) \ Digit

Base58CanParse(input) ==
  /\ ~(Len(input) < 8 \/ Len(input) > 60)
  /\ input # <<>> /\ AllIn(input, SetOf(base58Alphabet))
  /\ ~(AllIn(input, Digit \ {"0"}) /\ Len(input) < 15)
  /\ ~(AllIn(input, Base58Letters) /\ Len(input) < 10)

\* len(num.Bytes())
RECURSIVE ByteLen(_)
ByteLen(n) == IF n = <<0>> THEN 0 ELSE 1 + ByteLen(DivMod(n, 256).q)

\* the number of leading '1' characters
RECURSIVE LeadingOnes(_)
LeadingOnes(s) == IF s # <<>> /\ Head(s) = "1" THEN 1 + LeadingOnes(Tail(s)) ELSE 0

\* len(decodeBase58(s)): the bytes of the value and one zero byte for each
\* leading '1'; a string of '1's alone decodes to a single zero byte
Base58DecodedLen(s) ==
  IF LeadingOnes(s) = Len(s) THEN 1
  ELSE ByteLen(FromBase(s, base58Alphabet)) + LeadingOnes(s)

\* decoded[0]
Base58FirstByte(s) ==
  IF s[1] = "1" THEN 0
  ELSE LET n == FromBase(s, base58Alphabet)
       IN DivMod(ShiftRight(n, 8 * (ByteLen(n) - 1)), 256).r

Base58PossibleType(s) ==
  LET type(decodedLen, firstByte) ==
        IF decodedLen = 25 /\ firstByte = 0 THEN "Bitcoin P2PKH Address"
        ELSE IF decodedLen = 25 /\ firstByte = 5 THEN "Bitcoin P2SH Address"
        ELSE IF decodedLen >= 32 THEN "Hash or Key"
        ELSE ""
  IN type(Base58DecodedLen(s), Base58FirstByte(s))

\* int(float64(len) * 5.858)
Base58Entropy(n) == (n * 5858) \div 1000

Base58Parse(input) ==
  LET trimmed == TrimSpace(input)
  IN IF ~Base58CanParse(trimmed) THEN Err
     ELSE Ok(Info("Base58", "Base58", "", trimmed, Base58DecodedLen(trimmed) * 8,
                  {Base58Entropy(Len(trimmed))}, {},
                  [decoded_size |-> Base58DecodedLen(trimmed),
                   possible_type |-> Base58PossibleType(trimmed)]))

\* decodeBase58: the bytes of the value, and in front of them one zero byte
\* for each leading '1' but the last character of the string, at which the
\* loop returns a single zero byte
decodeBase58(s) ==
  IF s # <<>> /\ LeadingOnes(s) = Len(s) THEN <<0>>
  ELSE LET bytes(num) == Repeat(0, LeadingOnes(s)) \o ToBytes(num, ByteLen(num))
       IN bytes(FromBase(s, base58Alphabet))

\* encodeBase58 of a non-empty byte sequence
encodeBase58(data) ==
  LET zeros == CHOOSE k \in 0..Len(data) :
                 /\ \A i \in 1..k : data[i] = 0
                 /\ (k < Len(data) => data[k + 1] # 0)
  IN Repeat("1", zeros) \o ToBase(FromBytes(data), base58Alphabet)

(***************************************************************************)
(* PushID    (in-repository)                                               *)
(***************************************************************************)
pushIDAlphabet ==
  Chars("-0123456789ABCDEFGHIJKLMNOPQRSTUVWXYZ_abcdefghijklmnopqrstuvwxyz")
\* 2000-01-01 and 2100-01-01 in Unix milliseconds
year2000 == <<9,4,6,6,8,4,8,0,0,0,0,0>>
year2100 == <<4,1,0,2,4,4,4,8,0,0,0,0,0>>

PushIDCanParse(input) ==
  /\ Len(input) = 20
  /\ AllIn(input, SetOf(pushIDAlphabet))

\* extractTimestamp: the value, or <<>> when out of the accepted range
extractTimestamp(timestampPart) ==
  LET timestamp == FromBase(timestampPart, pushIDAlphabet)
  IN IF Less(timestamp, year2000) \/ Less(year2100, timestamp) THEN <<>> ELSE timestamp

PushIDParse(input) ==
  LET result(trimmed, timestamp) ==
        IF ~PushIDCanParse(trimmed) THEN Err
        ELSE Ok(Info("PushID", "Firebase PushID", "", trimmed, 120, {120},
                     IF timestamp = <<>> THEN {} ELSE {UnixMilli(timestamp)},
                     IF timestamp = <<>>
                       THEN [alphabet |-> "Firebase PushID (64 chars)"]
                       ELSE [alphabet |-> "Firebase PushID (64 chars)",
                             timestamp_part |-> SubSeq(trimmed, 1, 8),
                             random_part |-> SubSeq(trimmed, 9, 20)]))
  IN result(TrimSpace(input), extractTimestamp(SubSeq(TrimSpace(input), 1, 8)))

\* encodeTimestamp: base-64 digits without padding ("" for zero)
encodeTimestamp(timestamp) == ToBase(timestamp, pushIDAlphabet)

\* the timestamp part: the last 8 digits, left-padded with alphabet[1], and a
\* leading '-' replaced by '0'; followed by 12 random characters
PushIDGenerate(now, randomPart) ==
  LET cut(enc) == IF Len(enc) > 8 THEN SubSeq(enc, Len(enc) - 7, Len(enc)) ELSE enc
      fixed(padded) == IF padded[1] = "-" THEN <<"0">> \o Tail(padded) ELSE padded
  IN fixed(PadLeft(cut(encodeTimestamp(now)), 8, pushIDAlphabet[2])) \o randomPart

(***************************************************************************)
(* Base32    (internal/parsers/base32.go, encoding/base32)                 *)
(***************************************************************************)
Base32Chars == Upper \cup SetOf(Chars("234567"))

\* ^[A-Z2-7]+=*$
Base32Shape(s) ==
  LET body == TrimRight(s, {"="})
  IN body # <<>> /\ AllIn(body, Base32Chars)

\* StdEncoding, then the unpadded encoding on the input without its trailing
\* '=': the unpadded decoder takes every string of alphabet characters
Base32CanParse(input) ==
  /\ ~(Len(input) < 8 \/ Len(input) > 64)
  /\ Base32Shape(ToUpper(input))
  /\ AllIn(TrimRight(ToUpper(input), {"="}), Base32Chars)

\* len(decoded): five bytes for each eight characters, and 1, 2, 3, 4 bytes for
\* a last group of 2, 4, 5, 7 characters; a last group of 1, 3 or 6 characters
\* yields no byte
Base32TailBytes == <<0, 0, 1, 0, 2, 3, 0, 4>>
Base32DecodedLen(s) ==
  LET n == Len(TrimRight(s, {"="}))
  IN 5 * (n \div 8) + Base32TailBytes[(n % 8) + 1]

Base32PossibleType(n) ==
  CASE n = 16 -> "128-bit identifier (UUID size)"
    [] n = 20 -> "160-bit hash (SHA-1 size)"
    [] n = 32 -> "256-bit hash (SHA-256 size)"
    [] n = 48 -> "384-bit hash (SHA-384 size)"
    [] n = 64 -> "512-bit hash (SHA-512 size)"
    [] OTHER -> IF n >= 8 /\ n <= 12 THEN "Short identifier" ELSE ""

Base32Parse(input) ==
  LET upper == TrimSpace(ToUpper(input))
  IN IF ~Base32CanParse(upper) THEN Err
     ELSE Ok(Info("Base32", "Base32", "", upper, Base32DecodedLen(upper) * 8,
                  {Len(TrimRight(upper, {"="})) * 5}, {},
                  [padding |-> Count(upper, "="),
                   possible_type |-> Base32PossibleType(Base32DecodedLen(upper))]))

(***************************************************************************)
(* Generate.  now is the wall clock in Unix milliseconds; what a generator *)
(* draws at random is the parameter rnd, a string or byte sequence of the  *)
(* generator's alphabet.                                                   *)
(***************************************************************************)
NowSec(now) == DivPow10(now, 3).q

\* n << k
RECURSIVE ShiftLeft(_, _)
ShiftLeft(n, k) ==
  IF k = 0 THEN n
  ELSE IF k >= 16 THEN ShiftLeft(MulAdd(n, 65536, 0), k - 16)
  ELSE MulAdd(n, 2 ^ k, 0)

\* uuid.New(): a version-4 UUID; rnd is its text
UUIDGenerate(rnd) == rnd

\* uuid.NewMD5 and uuid.NewSHA1 of the DNS namespace and "idinfo-generated":
\* the hash of two constants, with the version and the variant set
UUIDv3OfName == Chars("f8ae0c9d-21df-36ef-8705-8e498539396a")
UUIDv5OfName == Chars("200aa65f-a56f-52b4-9af2-dd988695cb8e")

\* the 100-nanosecond intervals from 1582-10-15 to the clock reading, as the
\* 15 hexadecimal digits of the 60-bit time field of versions 1 and 6
UUIDTimeField(now) ==
  FormatHex(Add(MulAdd(now, 10000, 0), DecValue(Chars("122192928000000000"))), 15)

\* a generator that takes v3 and v5 for two more random versions
generateUUIDAllRandom(version, now, rnd) ==
  IF version \in {Chars("v1"), Chars("v3"), Chars("v4"), Chars("v5"), Chars("v6"), Chars("v7")}
    THEN [ok |-> TRUE, id |-> UUIDGenerate(rnd)]
    ELSE [ok |-> FALSE, id |-> <<>>]

\* generateUUIDWithVersion; rnd, a random UUID, gives the bits that the clock
\* does not: the clock sequence and the node of v1 and v6, the random bits of
\* v4 and v7
generateUUIDWithVersion(version, now, rnd) ==
  LET withFields(h, ms, tail) ==
        CASE version = Chars("v1") ->
               [ok |-> TRUE,
                id |-> SubSeq(h, 8, 15) \o <<"-">> \o SubSeq(h, 4, 7) \o <<"-", "1">>
                         \o SubSeq(h, 1, 3) \o tail]
          [] version = Chars("v3") -> [ok |-> TRUE, id |-> UUIDv3OfName]
          [] version = Chars("v4") -> [ok |-> TRUE, id |-> UUIDGenerate(rnd)]
          [] version = Chars("v5") -> [ok |-> TRUE, id |-> UUIDv5OfName]
          [] version = Chars("v6") ->
               [ok |-> TRUE,
                id |-> SubSeq(h, 1, 8) \o <<"-">> \o SubSeq(h, 9, 12) \o <<"-", "6">>
                         \o SubSeq(h, 13, 15) \o tail]
          [] version = Chars("v7") ->
               [ok |-> TRUE,
                id |-> SubSeq(ms, 1, 8) \o <<"-">> \o SubSeq(ms, 9, 12) \o <<"-", "7">>
                         \o SubSeq(rnd, 16, 18) \o tail]
          [] OTHER -> [ok |-> FALSE, id |-> <<>>]
  IN withFields(UUIDTimeField(now), FormatHex(now, 12), SubSeq(rnd, 19, 36))

\* ulid.Make(): 48 bits of milliseconds and 80 random bits (16 digits)
ULIDGenerate(now, rnd) == PadLeft(ToBase(now, CrockfordSeq), 10, "0") \o rnd

\* primitive.NewObjectID(): 4 bytes of seconds, 5 random bytes, 3 counter bytes
ObjectIDGenerate(now, rnd) == FormatHex(NowSec(now), 8) \o rnd

\* ksuid.New(): 4 bytes of seconds since the KSUID epoch and 16 random bytes
KSUIDGenerate(now, rnd) ==
  PadLeft(ToBase(Add(ShiftLeft(Sub(NowSec(now), KSUIDEpoch), 128), FromBytes(rnd)),
                 Base62Seq), 27, "0")

\* xid.New(): 4 bytes of seconds and 8 bytes of machine, pid and counter; the
\* 96 bits are written as 20 base-32 digits
XidGenerate(now, rnd) ==
  PadLeft(ToBase(MulAdd(Add(ShiftLeft(NowSec(now), 64), FromBytes(rnd)), 16, 0), XidSeq),
          20, "0")

\* cuid2.Generate(): a letter and 23 base-36 digits; rnd is the text
CUIDGenerate(rnd) == rnd

\* 2020-01-01T00:00:00Z in Unix milliseconds, the default TSID epoch
TSIDEpoch == <<1,5,7,7,8,3,6,8,0,0,0,0,0>>

\* tsid.Fast().ToString(): 42 bits of milliseconds since the epoch and 22
\* bits of node and counter (rnd), as 13 Crockford digits
TSIDGenerate(now, rnd) ==
  PadLeft(ToBase(Add(ShiftLeft(Sub(now, TSIDEpoch), 22), rnd), CrockfordSeq), 13, "0")

\* typeid.Generate("demo"): a version-7 UUID (48 bits of milliseconds, the
\* version, 12 random bits, the variant, 62 random bits) as 26 base-32 digits
TypeIDGenerate(now, rnd) ==
  LET high == Add(ShiftLeft(now, 16), Num(7 * 4096 + rnd[1] * 256 + rnd[2]))
      low == Add(ShiftLeft(<<2>>, 62), FromBytes(SubSeq(rnd, 3, Len(rnd))))
  IN Chars("demo_")
       \o PadLeft(ToBase(Add(ShiftLeft(high, 64), low), TypeIDSuffixSeq), 26, "0")

\* nuid.Next(): 12 random and 10 sequential base-62 digits; rnd is the text
NUIDGenerate(rnd) == rnd

\* shortuuid.New(): a version-4 UUID in base 57; rnd is the text
ShortUUIDGenerate(rnd) == rnd

\* gonanoid.New(): 21 characters of the default alphabet; rnd is the text
NanoIDGenerate(rnd) == rnd

\* node.Generate() of node 1: milliseconds since the epoch, the node, the step
\* in an int64, and its String(): from 2^41 milliseconds on the top bit is set
\* and the number is negative
SnowflakeGenerate(now, step) ==
  LET v == Add(ShiftLeft(Sub(now, SnowflakeEpoch), 22), Num(4096 + step))
  IN IF Less(v, TwoPow63) THEN FormatDec(v)
     ELSE <<"-">> \o FormatDec(Sub(TwoPow64, v))

\* snowflake.NewNode(1): no id made yet
NewNode == [time |-> <<0>>, step |-> 0]

\* the node after node.Generate() at the clock reading now: the next step of
\* the same millisecond, or step 0 of a new one
SnowflakeNodeGenerate(n, now) ==
  IF now = n.time THEN [time |-> now, step |-> (n.step + 1) % 4096]
  ELSE [time |-> now, step |-> 0]

\* node.Generate() reads the time elapsed since the node's epoch on the
\* monotonic clock, so a reading is never before the last one; when the steps
\* of a millisecond are used up it waits for a later reading
SnowflakeClockAllows(n, now) ==
  /\ Leq(n.time, now)
  /\ (now = n.time /\ (n.step + 1) % 4096 = 0) => FALSE

\* 32 random bytes through encodeBase58
Base58Generate(rnd) == encodeBase58(rnd)

\* 20 random bytes in the standard base-32 encoding: 32 digits, no padding;
\* rnd is the text
Base32Generate(rnd) == rnd

(***************************************************************************)
(* The registry    (internal/parsers/registry.go)                          *)
(***************************************************************************)
\* a registration order with the ObjectID decoder after the generic ones
RegistryObjectIDLast ==
  <<"UUID", "ULID", "KSUID", "Xid", "CUID", "SCRU128", "TSID", "TypeID",
    "NUID", "ShortUUID", "Sqids", "NanoID", "Snowflake", "UnixTime", "HashHex",
    "Base58", "PushID", "Base32", "ObjectID">>

\* a registration order with the NanoID decoder before the specific ones
RegistryNanoIDFirst ==
  <<"UUID", "ULID", "ObjectID", "KSUID", "Xid", "CUID", "SCRU128", "TSID", "NanoID",
    "TypeID", "NUID", "ShortUUID", "Sqids", "Snowflake", "UnixTime", "HashHex",
    "Base58", "PushID", "Base32">>

\* NewRegistry: the decoders in registration order, by Name()
Registry ==
  <<"UUID", "ULID", "ObjectID", "KSUID", "Xid", "CUID", "SCRU128", "TSID", "TypeID",
    "NUID", "ShortUUID", "Sqids", "NanoID", "Snowflake", "UnixTime", "HashHex",
    "Base58", "PushID", "Base32">>

Decoders == SetOf(Registry)

CanParse(p, x) ==
  CASE p = "UUID" -> UUIDCanParse(x)
    [] p = "ULID" -> ULIDCanParse(x)
    [] p = "ObjectID" -> ObjectIDCanParse(x)
    [] p = "KSUID" -> KSUIDCanParse(x)
    [] p = "Xid" -> XidCanParse(x)
    [] p = "CUID" -> CUIDCanParse(x)
    [] p = "SCRU128" -> SCRU128CanParse(x)
    [] p = "TSID" -> TSIDCanParse(x)
    [] p = "TypeID" -> TypeIDCanParse(x)
    [] p = "NUID" -> NUIDCanParse(x)
    [] p = "ShortUUID" -> ShortUUIDCanParse(x)
    [] p = "Sqids" -> SqidsCanParse(x)
    [] p = "NanoID" -> NanoIDCanParse(x)
    [] p = "Snowflake" -> SnowflakeCanParse(x)
    [] p = "UnixTime" -> UnixTimeCanParse(x)
    [] p = "HashHex" -> HashHexCanParse(x)
    [] p = "Base58" -> Base58CanParse(x)
    [] p = "PushID" -> PushIDCanParse(x)
    [] p = "Base32" -> Base32CanParse(x)

\* now is what time.Now() returns to the decoders that read the clock
Parse(p, x, now) ==
  CASE p = "UUID" -> UUIDParse(x)
    [] p = "ULID" -> ULIDParse(x)
    [] p = "ObjectID" -> ObjectIDParse(x)
    [] p = "KSUID" -> KSUIDParse(x)
    [] p = "Xid" -> XidParse(x)
    [] p = "CUID" -> CUIDParse(x)
    [] p = "SCRU128" -> SCRU128Parse(x, now)
    [] p = "TSID" -> TSIDParse(x)
    [] p = "TypeID" -> TypeIDParse(x)
    [] p = "NUID" -> NUIDParse(x)
    [] p = "ShortUUID" -> ShortUUIDParse(x)
    [] p = "Sqids" -> SqidsParse(x)
    [] p = "NanoID" -> NanoIDParse(x)
    [] p = "Snowflake" -> SnowflakeParse(x)
    [] p = "UnixTime" -> UnixTimeParse(x, now)
    [] p = "HashHex" -> HashHexParse(x)
    [] p = "Base58" -> Base58Parse(x)
    [] p = "PushID" -> PushIDParse(x)
    [] p = "Base32" -> Base32Parse(x)

\* the decoders whose identifier is a fixed number of bytes
FixedWidth == {"UUID", "ULID", "ObjectID", "KSUID", "Xid", "TSID", "Snowflake", "SCRU128"}

\* len(info.Binary) of the result of p.Parse(x), p of FixedWidth: the slice of
\* a byte array of the library's type (uuid.UUID and ulid.ULID [16]byte,
\* ObjectID and xid.ID [12]byte, KSUID [20]byte), make([]byte, 8) of TSID,
\* the [16]byte of SCRU128, and big.Int.Bytes() of Snowflake, which has no
\* leading zero byte
BinaryLen(p, x) ==
  CASE p = "UUID" -> 16
    [] p = "ULID" -> 16
    [] p = "ObjectID" -> 12
    [] p = "KSUID" -> 20
    [] p = "Xid" -> 12
    [] p = "TSID" -> 8
    [] p = "SCRU128" -> 16
    [] p = "Snowflake" -> ByteLen(DecValue(x))

\* seq is scru128Sequence after its increment
Generate(p, now, seq, rnd) ==
  CASE p = "UUID" -> UUIDGenerate(rnd)
    [] p = "ULID" -> ULIDGenerate(now, rnd)
    [] p = "ObjectID" -> ObjectIDGenerate(now, rnd)
    [] p = "KSUID" -> KSUIDGenerate(now, rnd)
    [] p = "Xid" -> XidGenerate(now, rnd)
    [] p = "CUID" -> CUIDGenerate(rnd)
    [] p = "SCRU128" -> SCRU128Generate(now, seq)
    [] p = "TSID" -> TSIDGenerate(now, rnd)
    [] p = "TypeID" -> TypeIDGenerate(now, rnd)
    [] p = "NUID" -> NUIDGenerate(rnd)
    [] p = "ShortUUID" -> ShortUUIDGenerate(rnd)
    [] p = "Sqids" -> SqidsGenerate
    [] p = "NanoID" -> NanoIDGenerate(rnd)
    [] p = "Snowflake" -> SnowflakeGenerate(now, rnd)
    [] p = "UnixTime" -> UnixTimeGenerate(now)
    [] p = "HashHex" -> HashHexGenerate
    [] p = "Base58" -> Base58Generate(rnd)
    [] p = "PushID" -> PushIDGenerate(now, rnd)
    [] p = "Base32" -> Base32Generate(rnd)

\* p.Generate() on the package-level state: the counter of SCRU128, the node
\* of Snowflake; the state after the call and the identifier it returns
PackageGenerate(p, now, rnd, seq, n) ==
  LET seq2 == IF p = "SCRU128" THEN SCRU128NextSequence(seq) ELSE seq
      n2 == IF p = "Snowflake" THEN SnowflakeNodeGenerate(n, now) ELSE n
  IN [seq |-> seq2, node |-> n2,
      id |-> Generate(p, now, seq2, IF p = "Snowflake" THEN n2.step ELSE rnd)]

\* strings.EqualFold on ASCII names
EqualFold(s, t) == ToLower(s) = ToLower(t)

\* Registry.GetParser: the first decoder whose name folds to the given one, or
\* "" (nil)
GetParser(name) ==
  IF \E i \in 1..Len(Registry) : EqualFold(Chars(Registry[i]), name)
    THEN Registry[CHOOSE i \in 1..Len(Registry) :
                    /\ EqualFold(Chars(Registry[i]), name)
                    /\ \A j \in 1..(i - 1) : ~EqualFold(Chars(Registry[j]), name)]
    ELSE ""

\* the alias table of matchesForceFormat: canonical name, accepted spellings
aliases ==
  <<<<"uuid", <<"uuid", "guid">>>>,
    <<"ulid", <<"ulid">>>>,
    <<"objectid", <<"objectid", "mongodb", "bson">>>>,
    <<"ksuid", <<"ksuid">>>>,
    <<"xid", <<"xid">>>>,
    <<"cuid", <<"cuid", "cuid2">>>>,
    <<"scru128", <<"scru128", "scru">>>>,
    <<"tsid", <<"tsid">>>>,
    <<"nuid", <<"nuid", "nats-uid", "nats-id">>>>,
    <<"nanoid", <<"nanoid", "nano-id", "nano_id">>>>,
    <<"snowflake", <<"snowflake", "sf", "sf-twitter", "sf-discord", "twitter", "discord">>>>,
    <<"unixtime", <<"unixtime", "unix", "timestamp">>>>,
    <<"hashhex", <<"hashhex", "hash", "hex">>>>,
    <<"base58", <<"base58", "b58", "bitcoin">>>>,
    <<"pushid", <<"pushid", "push-id", "firebase">>>>,
    <<"base32", <<"base32", "b32">>>>,
    <<"shortuuid", <<"shortuuid", "short-uuid", "suuid">>>>,
    <<"sqids", <<"sqids", "sqid">>>>,
    <<"typeid", <<"typeid", "type-id">>>>>>

\* a name resolution that takes the beginning of a name for the name
matchesPrefix(parserName, forceFormat) ==
  /\ Len(forceFormat) <= Len(parserName)
  /\ ToLower(SubSeq(parserName, 1, Len(forceFormat))) = ToLower(forceFormat)

\* a name resolution that leaves the force name in the case it was given in
matchesCaseSensitive(parserName, forceFormat) ==
  LET pn == ToLower(parserName)
  IN \/ \E r \in 1..Len(aliases) :
          /\ pn = Chars(aliases[r][1])
          /\ \E a \in 1..Len(aliases[r][2]) : Chars(aliases[r][2][a]) = forceFormat
     \/ pn = forceFormat

\* both names lower-cased; a row of the table keyed by the parser name lists
\* the force name, or the two names are equal
matchesForceFormat(parserName, forceFormat) ==
  LET pn == ToLower(parserName)
      ff == ToLower(forceFormat)
  IN \/ \E r \in 1..Len(aliases) :
          /\ pn = Chars(aliases[r][1])
          /\ \E a \in 1..Len(aliases[r][2]) : Chars(aliases[r][2][a]) = ff
     \/ pn = ff

(***************************************************************************)
(* Inputs: identifiers, force and generate names, clock readings, and what *)
(* the generators draw at random                                           *)
(***************************************************************************)
\* one well-formed identifier of each format, in registry order
Samples ==
  <<"550e8400-e29b-41d4-a716-446655440000", "01ARZ3NDEKTSV4RRFFQ69G5FAV",
    "507f1f77bcf86cd799439011", "0ujtsYcgvSTl8PAuAdqWYSMnLOv", "9m4e2mr0ui3e8a215n4g",
    "tz4a98xxat96iws9zmbrgj3a", "00PGHAJ3Q9VAJ7IU6PQBHBUAK4", "0ARYZ1J3DQZ8Z",
    "demo_01h455vb4pex5vsknk084sn02q", "B2mEHYVXnQpLtRz8fK3wJ5", "KwSysDpxcBU9FNhGkn2dCf",
    "i1D7jfxUL", "V1StGXR8_Z5jdHi6B-myT", "1541815603606036480", "1609459200",
    "d41d8cd98f00b204e9800998ecf8427e", "1A1zP1eP5QGefi2DMPTfTL5SLmv7DivfNa",
    "-JhLeOlGIEjaIOFHR0xd", "JBSWY3DPEBLW64TMMQ======">>

SampleIDs == {Chars(Samples[i]) : i \in 1..Len(Samples)}

\* numbers, hex strings, the largest ULID (of the year 10889), the SHA-1,
\* SHA-224, SHA-384 and SHA-512 digests of the empty string, and
\* non-identifiers
Others ==
  <<"0", "123", "abcd", "abc", "9223373646313975808", "18446744073709551615",
    "18446744073709551616", "1609459200000", "1609459200000000", "1609459200000000000",
    "5000000000", "3521253146", "000000000000000000000000", "FFFFFFFFFFFFFFFFFFFFFFFF",
    "aaaaaaaaaaaaaaaaaaaaaaaa", "0123456789abcdefABCDEF00", "0000000000000", "hello",
    "7ZZZZZZZZZZZZZZZZZZZZZZZZZ",
    "da39a3ee5e6b4b0d3255bfef95601890afd80709",
    "D14A028C2A3A2BC9476102BB288234C415A2B01F828EA62AC5B3E42F",
    "38b060a751ac96384cd9327eb1b1e36a21fdb71114be07434c0cc7bf63f6e1da274edebfe76f65fbd51ad2f14898b95b",
    "cf83e1357eefb8bdf1542850d66d8007d620e4050b5715dc83f4a921d36ce9ce47d0d13c5d85f2b0ff8318d2877eec2f63b931bd47417a81a538327af927da3e">>

OtherIDs == {Chars(Others[i]) : i \in 1..Len(Others)}

\* s with '@' in place of its first, middle or last character, or appended
AtVariants(s) ==
  {[s EXCEPT ![i] = "@"] : i \in {1, (Len(s) + 1) \div 2, Len(s)}} \cup {s \o <<"@">>}

\* s one character shorter, one longer, and inside white space
LengthVariants(s) ==
  {SubSeq(s, 1, Len(s) - 1), s \o <<s[1]>>, <<" ">> \o s, s \o <<" ">>}

Inputs ==
  SampleIDs \cup OtherIDs
    \cup UNION {AtVariants(s) : s \in SampleIDs}
    \cup UNION {LengthVariants(s) : s \in SampleIDs \cup {Chars("0000000000000")}}

\* canonical names in several cases, every alias of the table, and names the
\* registry does not have
NameList ==
  <<"uuid", "UUID", "Uuid", "guid", "GUID", "ulid", "objectid", "ObjectId", "mongodb",
    "bson", "ksuid", "xid", "cuid", "cuid2", "scru128", "scru", "tsid", "nuid",
    "nats-uid", "nats-id", "nanoid", "nano-id", "nano_id", "snowflake", "sf",
    "sf-twitter", "sf-discord", "twitter", "discord", "unixtime", "unix", "timestamp",
    "hashhex", "hash", "hex", "base58", "b58", "B58", "bitcoin", "pushid", "push-id",
    "firebase", "base32", "b32", "shortuuid", "short-uuid", "suuid", "sqids", "sqid",
    "typeid", "type-id", "nosuchformat", "uu", "uuidx", "base", "id">>

Names == {Chars(NameList[i]) : i \in 1..Len(NameList)}

\* the values of -g: the names, and "uuid:" with a version
UUIDVersionList ==
  <<"uuid:v1", "uuid:v3", "UUID:V3", "uuid:v4", "uuid:v5", "Uuid:V5", "uuid:v6", "uuid:v7",
    "uuid:v8", "uuid:">>
GenerateNames == Names \cup {Chars(UUIDVersionList[i]) : i \in 1..Len(UUIDVersionList)}
UUIDVersions == {Chars("v1"), Chars("v3"), Chars("v4"), Chars("v5"), Chars("v6"), Chars("v7")}

\* the identifiers given together with a force name
ForcedInputs ==
  {Chars("550e8400-e29b-41d4-a716-446655440000"), Chars("507f1f77bcf86cd799439011"),
   Chars("1541815603606036480"), Chars("123"), Chars("abcd"), Chars("hello"),
   Chars(" 0ARYZ1J3DQZ8Z ")}

\* wall-clock readings, Unix milliseconds: 1970-01-01T00:00:05Z, the last
\* millisecond of 1995-07-12T07:32:09Z and the first of 07:32:10Z,
\* 2025-11-06T00:00:00.123Z and the millisecond after it, and
\* 2096-10-02T07:06:40Z
ClockList ==
  <<"5000", "805534329999", "805534330000", "1762387200123", "1762387200124",
    "4000000000000">>
Clocks == {DecValue(Chars(ClockList[i])) : i \in 1..Len(ClockList)}
\* the generators with an epoch of their own run after it
GenClocks == {c \in Clocks : Leq(TSIDEpoch, c)}

\* the decoders whose Parse reads the clock, and the readings a Parse call
\* of p can tell apart
ParseReadsClock == {"SCRU128", "UnixTime"}
ParseClocksOf(p) ==
  IF p \in ParseReadsClock THEN Clocks ELSE {DecValue(Chars(ClockList[4]))}

\* the decoders whose Generate reads the clock
ReadsClock ==
  {"ULID", "ObjectID", "KSUID", "Xid", "SCRU128", "TSID", "TypeID", "Snowflake",
   "UnixTime", "PushID"}
\* the readings a Generate call of p can tell apart: one stands for all when
\* it reads none
GenClocksOf(p) ==
  IF p \in ReadsClock THEN GenClocks ELSE {DecValue(Chars(ClockList[4]))}

Bytes16 == <<1, 2, 3, 4, 5, 6, 7, 8, 9, 10, 11, 12, 13, 14, 15, 255>>

\* two draws for each generator that draws, and 32 zero bytes for Base58
RandomDraws(p) ==
  CASE p = "UUID" -> {Chars("550e8400-e29b-41d4-a716-446655440000"),
                      Chars("f47ac10b-58cc-4372-a567-0e02b2c3d479")}
    [] p = "ULID" -> {Chars("TSV4RRFFQ69G5FAV"), Chars("0000000000000000")}
    [] p = "ObjectID" -> {Chars("bcf86cd799439011"), Chars("0000000000000000")}
    [] p = "KSUID" -> {Bytes16, [i \in 1..16 |-> 255]}
    [] p = "Xid" -> {SubSeq(Bytes16, 1, 8), [i \in 1..8 |-> 255]}
    [] p = "CUID" -> {Chars("tz4a98xxat96iws9zmbrgj3a"), Chars("pfh0haxfpzowht3oi213cqos")}
    [] p = "TSID" -> {Num(12345), Num(0)}
    [] p = "TypeID" -> {SubSeq(Bytes16, 1, 10), [i \in 1..10 |-> 0]}
    [] p = "NUID" -> {Chars("B2mEHYVXnQpLtRz8fK3wJ5"), Chars("0YVXnQpLtRz8fK3wJ5B2mE")}
    [] p = "ShortUUID" -> {Chars("KwSysDpxcBU9FNhGkn2dCf"), Chars("mhvXdrZT4jP5T8vBxuvm75")}
    [] p = "NanoID" -> {Chars("V1StGXR8_Z5jdHi6B-myT"), Chars("-_0aA-_0aA-_0aA-_0aA-")}
    [] p = "Base58" -> {Bytes16 \o Bytes16, [i \in 1..32 |-> IF i < 3 THEN 0 ELSE i],
                        [i \in 1..32 |-> 0]}
    [] p = "PushID" -> {Chars("IEjaIOFHR0xd"), Chars("------------")}
    [] p = "Base32" -> {Chars("JBSWY3DPEBLW64TMMQQQQQQQJBSWY3DP"),
                        Chars("AAAAAAAAAAAAAAAAAAAAAAAAAAAAAAAA")}
    [] OTHER -> {<<>>}

\* the number of Generate calls of one library session
MaxGenerate == 3

(***************************************************************************)
(* The program.  A process is either the command-line tool, whose main     *)
(* runs once from the start and ends in an exit, or a client of the        *)
(* parsers package calling the decoders directly.                          *)
(***************************************************************************)
VARIABLES
  pc,               \* "start", "parsing", "parsed", "exit" (main); "lib", "go",
                    \* "codec", "detected" (client)
  input,            \* main's input string
  forceFormat,      \* the -f flag ("" when absent)
  generate,         \* the format handleGeneration is called with ("" when not called)
  id,               \* ParseID's input, white space trimmed
  idx,              \* ParseID's position in the registry, 1-based
  results,          \* ParseID's result list
  calls,            \* the decoder methods ParseID has called, in order
  exit,             \* main's outcome: exit code, what it wrote, the result shown
  scru128Sequence,  \* the package-level counter of SCRU128.Generate
  node,             \* defaultSnowflakeParser.node: the time and step of its last id
  lib,              \* the client's calls on one decoder and what they returned
  goroutines,       \* the client's concurrent Generate calls, <<>> when none
  flags             \* the command line: --help, -g, -e, --compare, -o, and whether
                    \* an argument follows the flags

vars ==
  <<pc, input, forceFormat, generate, id, idx, results, calls, exit, scru128Sequence,
    node, lib, goroutines, flags>>

NoExit == [code |-> -1, msg |-> "", out |-> <<>>]

\* the defaults of the flag definitions, and no argument
NoFlags ==
  [help |-> FALSE, generate |-> <<>>, everything |-> FALSE, compare |-> FALSE,
   outputFormat |-> "card", args |-> FALSE]

OutputFormats == {"card", "short", "json", "binary", "xml"}

\* the values of the flags a run ends without reading
Unread == [everything : BOOLEAN, compare : BOOLEAN, outputFormat : OutputFormats]

CommandLine(help, g, args, u) ==
  [help |-> help, generate |-> g, everything |-> u.everything, compare |-> u.compare,
   outputFormat |-> u.outputFormat, args |-> args]
\* can, parsed and canStandard hold what the call returned once it was made;
\* history holds the clock and the identifier of every Generate of the session;
\* data and decoded hold the argument of encodeBase58 and what decodeBase58
\* made of the string; detected holds what ParseID returned for the identifier
NoLib ==
  [parser |-> "", input |-> <<>>, now |-> <<>>, generated |-> 0,
   can |-> {}, parsed |-> {}, canStandard |-> {}, history |-> <<>>, version |-> <<>>,
   data |-> <<>>, decoded |-> {}, detected |-> {}]

Init ==
  /\ pc = "start"
  /\ input = <<>>
  /\ forceFormat = <<>>
  /\ generate = <<>>
  /\ id = <<>>
  /\ idx = 1
  /\ results = <<>>
  /\ calls = <<>>
  /\ exit = NoExit
  /\ scru128Sequence = 0
  /\ node = NewNode
  /\ lib = NoLib
  /\ goroutines = <<>>
  /\ flags = NoFlags

Exit(code, msg, out) ==
  /\ pc' = "exit"
  /\ exit' = [code |-> code, msg |-> msg, out |-> out]

\* main with --help
MainHelp ==
  /\ pc = "start"
  /\ \E g \in {<<>>, Chars("uuid"), Chars("nosuchformat")}, args \in BOOLEAN, u \in Unread :
       flags' = CommandLine(TRUE, g, args, u)
  /\ Exit(0, "help", <<>>)
  /\ UNCHANGED <<input, forceFormat, generate, id, idx, results, calls, scru128Sequence, node, lib, goroutines>>

\* strings.HasPrefix(strings.ToLower(format), "uuid:")
HasUUIDPrefix(format) ==
  Len(format) >= 5 /\ ToLower(SubSeq(format, 1, 5)) = Chars("uuid:")

\* of the flags a run with -g does not read, the defaults and one other value
UnreadOfGeneration ==
  {[everything |-> FALSE, compare |-> FALSE, outputFormat |-> "card"],
   [everything |-> TRUE, compare |-> TRUE, outputFormat |-> "xml"]}

\* main with -g: handleGeneration
handleGeneration ==
  /\ pc = "start"
  /\ \E format \in GenerateNames :
       LET parser == GetParser(format)
       IN /\ generate' = format
          /\ \E args \in BOOLEAN, u \in UnreadOfGeneration :
               flags' = CommandLine(FALSE, format, args, u)
          /\ IF HasUUIDPrefix(format)
               THEN /\ \E now \in GenClocks, rnd \in RandomDraws("UUID") :
                         LET version == ToLower(SubSeq(format, 6, Len(format)))
                         IN \E u \in {generateUUIDWithVersion(version, now, rnd)} :
                              IF u.ok THEN Exit(0, "UUID", u.id)
                              ELSE Exit(1, "Error generating UUID", version)
                    /\ UNCHANGED <<scru128Sequence, node>>
             ELSE IF parser = ""
               THEN /\ Exit(1, "Unsupported format", format)
                    /\ UNCHANGED <<scru128Sequence, node>>
               ELSE \E now \in GenClocksOf(parser), rnd \in RandomDraws(parser) :
                    \E g \in {PackageGenerate(parser, now, rnd, scru128Sequence, node)} :
                      /\ Exit(0, parser, g.id)
                      /\ scru128Sequence' = g.seq
                      /\ node' = g.node
  /\ UNCHANGED <<input, forceFormat, id, idx, results, calls, lib, goroutines>>

\* main without -g and without an argument
MainNoArgs ==
  /\ pc = "start"
  /\ \E u \in Unread : flags' = CommandLine(FALSE, <<>>, FALSE, u)
  /\ Exit(1, "Please provide an ID to parse", <<>>)
  /\ UNCHANGED <<input, forceFormat, generate, id, idx, results, calls, scru128Sequence, node, lib, goroutines>>

\* main with an argument, or with "-" and a line on standard input (which is
\* trimmed as it is read): up to the call of ParseID, which trims its input.
\* -e, --compare and -o are read after ParseID, or not at all
MainStart ==
  /\ pc = "start"
  /\ \E f \in Names \cup {<<>>}, stdin \in BOOLEAN :
     \E arg \in (IF f = <<>> THEN Inputs \cup {<<>>} ELSE ForcedInputs) :
       LET in == IF stdin THEN TrimSpace(arg) ELSE arg
       IN /\ input' = in
          /\ forceFormat' = f
          /\ IF in = <<>>
               THEN /\ \E u \in Unread, failed \in (IF stdin THEN BOOLEAN ELSE {FALSE}) :
                         /\ flags' = CommandLine(FALSE, <<>>, TRUE, u)
                         /\ IF failed THEN Exit(1, "Error reading from stdin", <<>>)
                            ELSE Exit(1, "Empty input provided", <<>>)
                    /\ UNCHANGED id
               ELSE /\ pc' = "parsing"
                    /\ id' = TrimSpace(in)
                    /\ flags' = [flags EXCEPT !.args = TRUE]
                    /\ UNCHANGED exit
  /\ UNCHANGED <<generate, idx, results, calls, scru128Sequence, node, lib, goroutines>>

\* a ParseID that keeps the first result only
CollectFirst(list, r) == IF r.ok /\ list = <<>> THEN <<r.info>> ELSE list

\* ParseID keeps the result of a Parse that returned no error
Collect(list, r) == IF r.ok THEN Append(list, r.info) ELSE list

\* one iteration of ParseID's loop without a force name
AutoStep ==
  /\ pc = "parsing" /\ forceFormat = <<>> /\ idx <= Len(Registry)
  /\ LET parser == Registry[idx]
     IN IF CanParse(parser, id)
          THEN \E now \in ParseClocksOf(parser) :
                 LET r == Parse(parser, id, now)
                 IN /\ calls' = calls \o <<<<"CanParse", parser>>, <<"Parse", parser>>>>
                    /\ results' = Collect(results, r)
          ELSE /\ calls' = Append(calls, <<"CanParse", parser>>)
               /\ UNCHANGED results
  /\ idx' = idx + 1
  /\ UNCHANGED <<pc, input, forceFormat, generate, id, exit, scru128Sequence, node, lib, goroutines, flags>>

\* one iteration of ParseID's loop with a force name
ForcedStep ==
  /\ pc = "parsing" /\ forceFormat # <<>> /\ idx <= Len(Registry)
  /\ LET parser == Registry[idx]
     IN IF matchesForceFormat(Chars(parser), forceFormat)
          THEN \E now \in ParseClocksOf(parser) :
                 LET r == Parse(parser, id, now)
                 IN /\ calls' = Append(calls, <<"Parse", parser>>)
                    /\ results' = Collect(results, r)
          ELSE UNCHANGED <<calls, results>>
  /\ idx' = idx + 1
  /\ UNCHANGED <<pc, input, forceFormat, generate, id, exit, scru128Sequence, node, lib, goroutines, flags>>

\* ParseID returns
ParseIDReturn ==
  /\ pc = "parsing" /\ idx > Len(Registry)
  /\ pc' = "parsed"
  /\ UNCHANGED <<input, forceFormat, generate, id, idx, results, calls, exit, scru128Sequence, node, lib, goroutines, flags>>

\* what main writes when a forced run has no result
ForcedRejection == [code |-> 1, msg |-> "The ID cannot be parsed as format"]

\* the first second of the year 10000, UTC
Year10000 == DecValue(Chars("253402300800"))

\* json.MarshalIndent that never returns an error
JSONMarshalNeverFails(info) == FALSE

\* json.MarshalIndent of a result returns an error: Time.MarshalJSON refuses
\* a DateTime whose year is outside [0, 9999]; no DateTime of a decoder is
\* before the year 0
JSONMarshalFails(info) ==
  /\ info.Parser # "TSID"
  /\ \E t \in info.DateTime : ~t.neg /\ Leq(Year10000, t.sec)

\* Time.Before; a time before 1970 is sec whole seconds before it plus nsec
Before(a, b) ==
  IF a.neg # b.neg THEN a.neg
  ELSE IF a.sec # b.sec THEN (IF a.neg THEN Less(b.sec, a.sec) ELSE Less(a.sec, b.sec))
  ELSE a.nsec < b.nsec

\* the nanoseconds of sec seconds and nsec nanoseconds
Nanos(sec, nsec) == MulAdd(MulAdd(sec, 100000, 0), 10000, nsec)

\* time.Minute, in nanoseconds
Minute == Nanos(Num(60), 0)

\* diff < time.Minute && diff > -time.Minute for diff = now.Sub(t), now at or
\* after 1970; a difference that Sub saturates is not within a minute
WithinMinute(now, t) ==
  IF t.neg THEN Less(Add(Nanos(now.sec, now.nsec), Sub(Nanos(t.sec, 0), Num(t.nsec))), Minute)
  ELSE Less(AbsDiff(Nanos(now.sec, now.nsec), Nanos(t.sec, t.nsec)), Minute)

\* GetUnixMillis of the TSID of a Standard string whose first digit is '0':
\* the bits above the 22 of node and counter, and the TSID epoch
TSIDDateTime(standard) ==
  UnixMilli(Add(ShiftRight(FromBase(standard, CrockfordSeq), 22), TSIDEpoch))

\* *info.DateTime of a result that has one
DateTimeOf(info) ==
  IF info.Parser = "TSID" THEN TSIDDateTime(info.Standard)
  ELSE CHOOSE time \in info.DateTime : TRUE

\* a comparison that marks a future entry as future whatever its distance
SuffixFutureFirst(now, timestamp) ==
  IF Before(now, timestamp) THEN " (future)"
  ELSE IF WithinMinute(now, timestamp) THEN " --- Now ---"
  ELSE ""

\* the suffix of a line of ShowComparison: " (future)" for a time after now,
\* replaced by " --- Now ---" for a time within a minute of now
Suffix(now, timestamp) ==
  IF WithinMinute(now, timestamp) THEN " --- Now ---"
  ELSE IF Before(now, timestamp) THEN " (future)"
  ELSE ""

\* the loop over the results: one entry for each result with a DateTime
RECURSIVE Timestamps(_, _, _)
Timestamps(list, i, acc) ==
  IF i > Len(list) THEN acc
  ELSE IF list[i].DateTime = {} THEN Timestamps(list, i + 1, acc)
  ELSE Timestamps(list, i + 1,
                  Append(acc, [format |-> list[i].IDType, timestamp |-> DateTimeOf(list[i])]))

\* sort.Slice sorts at most 12 entries by insertion; one insertion:
\* the entry moves towards the front while it is Before the one ahead of it
RECURSIVE Insert(_, _)
Insert(sorted, e) ==
  IF sorted = <<>> \/ ~Before(e.timestamp, sorted[Len(sorted)].timestamp)
    THEN Append(sorted, e)
    ELSE Append(Insert(SubSeq(sorted, 1, Len(sorted) - 1), e), sorted[Len(sorted)])

RECURSIVE SortSlice(_, _, _)
SortSlice(timestamps, i, acc) ==
  IF i > Len(timestamps) THEN acc
  ELSE SortSlice(timestamps, i + 1, Insert(acc, timestamps[i]))

\* ShowComparison at the clock reading now: the lines it prints
ShowComparison(list, now) ==
  LET lines(sorted) ==
        [i \in 1..Len(sorted) |->
           [timestamp |-> sorted[i].timestamp, format |-> sorted[i].format,
            suffix |-> Suffix(now, sorted[i].timestamp)]] \o <<>>
      sort(timestamps) == lines(SortSlice(timestamps, 1, <<>>))
  IN sort(Timestamps(list, 1, <<>>))

\* time.Now() of ShowComparison, Unix milliseconds: 1970-01-01T00:00:05Z,
\* 2025-11-06T00:00:00.123Z, and one minute before, 59.999 s before, at,
\* 30 s after and one minute after 2021-01-01T00:00:00Z
CompareClockList ==
  <<"5000", "1762387200123", "1609459140000", "1609459140001", "1609459200000",
    "1609459230000", "1609459260000">>
CompareClocks == {DecValue(Chars(CompareClockList[i])) : i \in 1..Len(CompareClockList)}

\* main after ParseID: the error for an empty list, else -e, --compare, or
\* the first result in the format of -o
MainReport ==
  /\ pc = "parsed"
  /\ \E u \in Unread :
       /\ flags' = CommandLine(FALSE, <<>>, TRUE, u)
       /\ IF Len(results) = 0
            THEN IF forceFormat # <<>>
                   THEN Exit(ForcedRejection.code, ForcedRejection.msg, forceFormat)
                   ELSE Exit(1, "The ID format is not recognized or supported", <<>>)
            ELSE IF u.everything THEN Exit(0, "everything", results)
            ELSE IF u.compare
                   THEN \E now \in CompareClocks :
                          Exit(0, "comparison",
                               [now |-> UnixMilli(now),
                                lines |-> ShowComparison(results, UnixMilli(now))])
            ELSE IF u.outputFormat \in {"card", "short", "binary"}
                   THEN Exit(0, u.outputFormat, results[1])
            ELSE IF u.outputFormat = "json"
                   THEN IF JSONMarshalFails(results[1])
                          THEN Exit(1, "Error generating JSON output", <<>>)
                          ELSE Exit(0, "json", results[1])
            ELSE Exit(1, "Unknown output format", <<>>)
  /\ UNCHANGED <<input, forceFormat, generate, id, idx, results, calls, scru128Sequence, node, lib, goroutines>>

\* a client has called SCRU128.Generate SequenceLimit - 2 times, one after the
\* other, and kept none of the identifiers: the counter is two short of its
\* limit
LibGenerateMany ==
  /\ pc = "start"
  /\ pc' = "lib"
  /\ scru128Sequence' = SequenceLimit - 2
  /\ lib' = [NoLib EXCEPT !.parser = "SCRU128"]
  /\ UNCHANGED <<input, forceFormat, generate, id, idx, results, calls, exit, node, goroutines, flags>>

\* a client calls D.Generate, up to MaxGenerate times in a row
LibGenerate ==
  /\ \/ pc = "start"
     \/ /\ pc = "lib"
        /\ lib.version = <<>>
        /\ lib.generated \in (IF lib.input = <<>> THEN 0 ELSE 1)..(MaxGenerate - 1)
        /\ lib.can = {} /\ lib.parsed = {}
  /\ \E parser \in Decoders :
     \E now \in GenClocksOf(parser) :
       /\ pc = "lib" => parser = lib.parser
       /\ parser = "Snowflake" => SnowflakeClockAllows(node, now)
       /\ \E rnd \in RandomDraws(parser) :
          \E g \in {PackageGenerate(parser, now, rnd, scru128Sequence, node)} :
            /\ scru128Sequence' = g.seq
            /\ node' = g.node
            /\ lib' = [NoLib EXCEPT !.parser = parser, !.now = now,
                                    !.input = g.id,
                                    !.generated = lib.generated + 1,
                                    !.history = Append(lib.history,
                                                       [now |-> now, id |-> g.id])]
  /\ pc' = "lib"
  /\ UNCHANGED <<input, forceFormat, generate, id, idx, results, calls, exit, goroutines, flags>>

\* a client calls generateUUIDWithVersion, up to MaxGenerate times in a row
\* with one version
LibGenerateUUID ==
  /\ \/ pc = "start"
     \/ /\ pc = "lib"
        /\ lib.version # <<>>
        /\ lib.generated \in 1..(MaxGenerate - 1)
        /\ lib.can = {} /\ lib.parsed = {}
  /\ \E version \in UUIDVersions, now \in GenClocks, rnd \in RandomDraws("UUID") :
     \E u \in {generateUUIDWithVersion(version, now, rnd)} :
          /\ pc = "lib" => version = lib.version
          /\ lib' = [NoLib EXCEPT !.parser = "UUID", !.now = now, !.version = version,
                                  !.input = u.id,
                                  !.generated = lib.generated + 1,
                                  !.history = Append(lib.history,
                                                     [now |-> now, id |-> u.id])]
  /\ pc' = "lib"
  /\ UNCHANGED <<input, forceFormat, generate, id, idx, results, calls, exit, scru128Sequence, node, goroutines, flags>>

\* a client calls D.CanParse, on an identifier it was given or on the one
\* its first D.Generate returned
LibCanParse ==
  /\ \/ pc = "start"
     \/ pc = "lib" /\ lib.generated = 1 /\ lib.can = {} /\ lib.parsed = {}
  /\ \E parser \in Decoders, x \in (IF pc = "lib" THEN {lib.input} ELSE Inputs) :
       /\ pc = "lib" => parser = lib.parser
       /\ lib' = [lib EXCEPT !.parser = parser, !.input = x,
                             !.can = {CanParse(parser, x)}]
  /\ pc' = "lib"
  /\ UNCHANGED <<input, forceFormat, generate, id, idx, results, calls, exit, scru128Sequence, node, goroutines, flags>>

\* a client calls D.Parse on the identifier of the session
LibParse ==
  /\ pc = "lib" /\ lib.parsed = {}
  /\ lib.generated = 1 \/ (lib.generated = 0 /\ lib.can # {})
  /\ \E now \in (IF lib.generated > 0 THEN {lib.now} ELSE ParseClocksOf(lib.parser)) :
       /\ lib' = [lib EXCEPT !.now = now,
                             !.parsed = {Parse(lib.parser, lib.input, now)}]
  /\ UNCHANGED <<pc, input, forceFormat, generate, id, idx, results, calls, exit, scru128Sequence, node, goroutines, flags>>

\* a client calls D.CanParse on the Standard string of the result of D.Parse
LibCanParseStandard ==
  /\ pc = "lib" /\ lib.canStandard = {}
  /\ \E r \in lib.parsed :
       /\ r.ok
       /\ lib' = [lib EXCEPT !.canStandard = {CanParse(lib.parser, r.info.Standard)}]
  /\ UNCHANGED <<pc, input, forceFormat, generate, id, idx, results, calls, exit, scru128Sequence, node, goroutines, flags>>

\* byte sequences with and without leading zero bytes, and of zero bytes only
ByteSequences ==
  {<<0>>, <<0, 0>>, <<0, 0, 0>>, <<1>>, <<57>>, <<58>>, <<255>>, <<0, 1>>, <<1, 0>>,
   <<0, 0, 255, 0>>, <<255, 255>>, Bytes16, [i \in 1..32 |-> IF i < 3 THEN 0 ELSE i]}

\* the codec of Base58 on its own: encodeBase58 of a byte sequence, as
\* Generate calls it, and decodeBase58 of the string, as Parse calls it
Base58Codec ==
  /\ pc = "start"
  /\ pc' = "codec"
  /\ \E data \in ByteSequences :
     \E s \in {encodeBase58(data)} :
       lib' = [NoLib EXCEPT !.parser = "Base58", !.data = data, !.input = s,
                            !.decoded = {decodeBase58(s)}]
  /\ UNCHANGED <<input, forceFormat, generate, id, idx, results, calls, exit, scru128Sequence, node, goroutines, flags>>

\* Registry.ParseID without a force name, from the i-th decoder on, every
\* decoder reading the clock now
RECURSIVE ParseIDFrom(_, _, _, _)
ParseIDFrom(x, now, i, acc) ==
  IF i > Len(Registry) THEN acc
  ELSE ParseIDFrom(x, now, i + 1,
                   IF CanParse(Registry[i], x)
                     THEN Collect(acc, Parse(Registry[i], x, now))
                     ELSE acc)

ParseID(x, now) == ParseIDFrom(TrimSpace(x), now, 1, <<>>)

\* a client calls ParseID without a force name on the identifier its
\* D.Generate returned, as main does with the output of a run with -g
LibParseID ==
  /\ pc = "lib" /\ lib.generated = 1 /\ lib.version = <<>>
  /\ lib.can = {} /\ lib.parsed = {}
  /\ pc' = "detected"
  /\ \E list \in {ParseID(lib.input, lib.now)} :
       lib' = [lib EXCEPT !.detected = {list}]
  /\ UNCHANGED <<input, forceFormat, generate, id, idx, results, calls, exit, scru128Sequence, node, goroutines, flags>>

\* a client starts two goroutines that each call D.Generate once
GoGenerate ==
  /\ pc = "start"
  /\ pc' = "go"
  /\ \E parser \in Decoders :
       goroutines' = [g \in 1..2 |-> [parser |-> parser, pc |-> "call", now |-> <<>>,
                                      reg |-> 0, out |-> <<>>]]
  /\ UNCHANGED <<input, forceFormat, generate, id, idx, results, calls, exit, scru128Sequence, node, lib, flags>>

\* Generate of a decoder other than SCRU128 in one goroutine: it reads the
\* clock and draws its random bytes, each call from a generator of its own or
\* under the lock of a shared one; node.Generate of Snowflake holds the node's
\* mutex from its clock reading to its return
GoCall ==
  /\ pc = "go"
  /\ \E g \in 1..2 :
     \E now \in GenClocksOf(goroutines[g].parser) :
       /\ goroutines[g].pc = "call"
       /\ goroutines[g].parser # "SCRU128"
       /\ goroutines[g].parser = "Snowflake" => SnowflakeClockAllows(node, now)
       /\ \E rnd \in RandomDraws(goroutines[g].parser) :
          \E r \in {PackageGenerate(goroutines[g].parser, now, rnd, scru128Sequence, node)} :
            /\ node' = r.node
            /\ goroutines' = [goroutines EXCEPT ![g].pc = "done", ![g].now = now,
                                                ![g].out = r.id]
  /\ UNCHANGED <<pc, input, forceFormat, generate, id, idx, results, calls, exit, scru128Sequence, lib, flags>>

\* SCRU128.Generate in one goroutine, statement by statement; the increment
\* of the package-level counter is a load and a store with no lock around them
\* now := time.Now().UnixMilli()
GoNow ==
  /\ pc = "go"
  /\ \E g \in 1..2, now \in GenClocks :
       /\ goroutines[g].pc = "call"
       /\ goroutines[g].parser = "SCRU128"
       /\ goroutines' = [goroutines EXCEPT ![g].pc = "load", ![g].now = now]
  /\ UNCHANGED <<pc, input, forceFormat, generate, id, idx, results, calls, exit, scru128Sequence, node, lib, flags>>

\* scru128Sequence++, the load
GoLoad ==
  /\ pc = "go"
  /\ \E g \in 1..2 :
       /\ goroutines[g].pc = "load"
       /\ goroutines' = [goroutines EXCEPT ![g].pc = "store", ![g].reg = scru128Sequence]
  /\ UNCHANGED <<pc, input, forceFormat, generate, id, idx, results, calls, exit, scru128Sequence, node, lib, flags>>

\* scru128Sequence++, the store
GoStore ==
  /\ pc = "go"
  /\ \E g \in 1..2 :
       /\ goroutines[g].pc = "store"
       /\ scru128Sequence' = goroutines[g].reg + 1
       /\ goroutines' = [goroutines EXCEPT ![g].pc = "check"]
  /\ UNCHANGED <<pc, input, forceFormat, generate, id, idx, results, calls, exit, node, lib, flags>>

\* if scru128Sequence >= 1000000000 { scru128Sequence = 0 }
GoCheck ==
  /\ pc = "go"
  /\ \E g \in 1..2 :
       /\ goroutines[g].pc = "check"
       /\ scru128Sequence' = IF scru128Sequence >= SequenceLimit THEN 0 ELSE scru128Sequence
       /\ goroutines' = [goroutines EXCEPT ![g].pc = "format"]
  /\ UNCHANGED <<pc, input, forceFormat, generate, id, idx, results, calls, exit, node, lib, flags>>

\* return fmt.Sprintf("%013x%09x", now, scru128Sequence)
GoFormat ==
  /\ pc = "go"
  /\ \E g \in 1..2 :
       /\ goroutines[g].pc = "format"
       /\ goroutines' = [goroutines EXCEPT
                           ![g].pc = "done",
                           ![g].out = SCRU128Generate(goroutines[g].now, scru128Sequence)]
  /\ UNCHANGED <<pc, input, forceFormat, generate, id, idx, results, calls, exit, scru128Sequence, node, lib, flags>>

Next ==
  \/ MainHelp
  \/ handleGeneration
  \/ MainNoArgs
  \/ MainStart
  \/ AutoStep
  \/ ForcedStep
  \/ ParseIDReturn
  \/ MainReport
  \/ LibGenerateMany
  \/ LibGenerate
  \/ LibGenerateUUID
  \/ LibCanParse
  \/ LibParse
  \/ LibCanParseStandard
  \/ Base58Codec
  \/ LibParseID
  \/ GoGenerate
  \/ GoCall
  \/ GoNow
  \/ GoLoad
  \/ GoStore
  \/ GoCheck
  \/ GoFormat

Spec == Init /\ [][Next]_vars

(***************************************************************************)
(* Properties                                                              *)
(***************************************************************************)

C2_ForcedModeParsesAtMostOnce ==
  forceFormat # <<>> =>
    /\ Len(calls) <= 1
    /\ \A k \in 1..Len(calls) :
         /\ calls[k][1] = "Parse"
         /\ matchesForceFormat(Chars(calls[k][2]), forceFormat)
    /\ Len(results) <= Len(calls)
    /\ pc = "parsed" =>
         /\ Len(calls) = 1 <=>
              \E p \in Decoders : matchesForceFormat(Chars(p), forceFormat)
         /\ Len(results) = 1 <=>
              /\ Len(calls) = 1
              /\ \E now \in Clocks : Parse(calls[1][2], id, now).ok
         /\ \A k \in 1..Len(results) :
              \E now \in Clocks : results[k] = Parse(calls[1][2], id, now).info

\* a forced run on an input the decoder's CanParse rejects: Parse was called
\* once and its result returned
C2_Witness ==
  /\ pc = "parsed" /\ forceFormat = Chars("unix") /\ id = Chars("123")
  /\ calls = <<<<"Parse", "UnixTime">>>>
  /\ Len(results) = 1

\* C3: a forced run whose name no decoder answers to ends with a report of
\* an unknown format name, which differs from what main writes when a known
\* format's Parse rejected the input.
C3_UnknownForceNameReported ==
  ( /\ pc = "exit" /\ forceFormat # <<>> /\ input # <<>>
    /\ \A p \in Decoders : ~matchesForceFormat(Chars(p), forceFormat) )
    => [code |-> exit.code, msg |-> exit.msg] # ForcedRejection

\* C4 as stated: a name selects a decoder for forced parsing exactly when it
\* selects that decoder for generation.
C4_OneResolutionForBothModes ==
  (pc = "parsed" /\ forceFormat # <<>>) =>
    {calls[k][2] : k \in 1..Len(calls)} = {p \in Decoders : GetParser(forceFormat) = p}

\* C4, amended: a name that selects a decoder for generation selects the same
\* decoder for forced parsing; forced parsing selects the decoder in whose row
\* of the alias table the lower-cased name stands, and no decoder when it
\* stands in no row; generation selects no decoder for a name that is no
\* canonical name.
C4_GenerationNamesAreForceNames ==
  LET Row(p) == CHOOSE r \in 1..Len(aliases) : Chars(aliases[r][1]) = ToLower(Chars(p))
      InRow(p, s) ==
        \E a \in 1..Len(aliases[Row(p)][2]) : Chars(aliases[Row(p)][2][a]) = ToLower(s)
  IN /\ (pc = "parsed" /\ forceFormat # <<>>) =>
          /\ {calls[k][2] : k \in 1..Len(calls)} = {p \in Decoders : InRow(p, forceFormat)}
          /\ GetParser(forceFormat) # "" => calls = <<<<"Parse", GetParser(forceFormat)>>>>
     /\ (pc = "exit" /\ generate # <<>> /\ ~HasUUIDPrefix(generate)) =>
          IF exit.code = 0
            THEN /\ ToLower(Chars(exit.msg)) = ToLower(generate)
                 /\ InRow(exit.msg, generate)
            ELSE \A p \in Decoders : ToLower(Chars(p)) # ToLower(generate)

\* a forced run under an alias in upper case, a name generation does not know
C4_Witness ==
  /\ pc = "parsed" /\ forceFormat = Chars("GUID")
  /\ calls = <<<<"Parse", "UUID">>>>
  /\ GetParser(forceFormat) = ""

\* C5: for every decoder, Parse of what Generate returned succeeds, and
\* CanParse accepts the Standard string of the result.
C5_RoundTrip ==
  (pc = "lib" /\ lib.generated > 0) =>
    /\ \A r \in lib.parsed : r.ok
    /\ lib.canStandard \subseteq {TRUE}

\* C6: Parse rejects whatever CanParse rejects, so a forced run never returns
\* a result for an input the decoder's CanParse rejects.
C6_ParseRevalidates ==
  /\ (pc = "lib" /\ lib.can = {FALSE}) => \A r \in lib.parsed : ~r.ok
  /\ (pc = "parsed" /\ forceFormat # <<>>) =>
       \A k \in 1..Len(results) : CanParse(results[k].Parser, id)

\* C7 as stated: only the UUID decoder's CanParse accepts the literal, and
\* auto-detect returns one element, of Size 128, Version "4 (random)",
\* Entropy 122.
C7_LiteralOnlyUUID ==
  LET literal == Chars("550e8400-e29b-41d4-a716-446655440000")
  IN /\ (pc = "lib" /\ lib.input = literal /\ lib.can = {TRUE}) => lib.parser = "UUID"
     /\ (pc = "parsed" /\ forceFormat = <<>> /\ id = literal) =>
          /\ Len(results) = 1
          /\ results[1].Size = 128
          /\ results[1].Version = "4 (random)"
          /\ results[1].Entropy = {122}

\* C7, amended: the CanParse of the UUID decoder and of the NanoID decoder
\* accept the literal and no other decoder's does, so auto-detect returns two
\* elements; the first is the UUID decoder's, of Size 128, Version
\* "4 (random)", Entropy 122, the second the NanoID decoder's.
C7_LiteralUUIDThenNanoID ==
  LET literal == Chars("550e8400-e29b-41d4-a716-446655440000")
  IN /\ (pc = "lib" /\ lib.input = literal /\ lib.can # {}) =>
          lib.can = {lib.parser \in {"UUID", "NanoID"}}
     /\ (pc = "parsed" /\ forceFormat = <<>> /\ id = literal) =>
          /\ Len(results) = 2
          /\ results[1].Parser = "UUID"
          /\ results[1].IDType = "UUID (RFC-9562)"
          /\ results[1].Size = 128
          /\ results[1].Version = "4 (random)"
          /\ results[1].Entropy = {122}
          /\ results[2].Parser = "NanoID"

\* auto-detect has returned for the literal
C7_Witness ==
  /\ pc = "parsed" /\ forceFormat = <<>>
  /\ input = Chars("550e8400-e29b-41d4-a716-446655440000")
  /\ Len(results) > 0 /\ results[1].Version = "4 (random)"

\* C8: every CanParse rejects an input that contains '@', so auto-detect
\* returns nothing for it; and the CanParse of a decoder of fixed length
\* rejects every input of another length.
C8_NegativeRejection ==
  LET fixed == <<<<"ULID", 26>>, <<"ObjectID", 24>>, <<"KSUID", 27>>, <<"Xid", 20>>,
                 <<"SCRU128", 26>>, <<"TSID", 13>>, <<"NUID", 22>>, <<"ShortUUID", 22>>,
                 <<"PushID", 20>>>>
  IN /\ (pc = "lib" /\ lib.can # {} /\ Contains(lib.input, "@")) => lib.can = {FALSE}
     /\ (pc = "parsed" /\ forceFormat = <<>> /\ Contains(id, "@")) => results = <<>>
     /\ (pc = "lib" /\ lib.can # {}) =>
          \A i \in 1..Len(fixed) :
            (lib.parser = fixed[i][1] /\ Len(lib.input) # fixed[i][2]) => lib.can = {FALSE}

\* C9: for an input of 24 hexadecimal characters, the first element
\* auto-detect returns is the ObjectID decoder's.
C9_ObjectIDFirst ==
  (pc = "parsed" /\ forceFormat = <<>> /\ Len(id) = 24 /\ AllIn(id, HexChar)) =>
    /\ Len(results) > 0
    /\ results[1].Parser = "ObjectID"
    /\ results[1].IDType = "MongoDB ObjectId"

\* auto-detect has returned several readings of 24 hexadecimal characters
C9_Witness ==
  /\ pc = "parsed" /\ forceFormat = <<>>
  /\ id = Chars("507f1f77bcf86cd799439011")
  /\ Len(results) > 1 /\ results[1].Parser = "ObjectID"

\* C10: UnixTime.Parse reads the integer v as seconds, milliseconds,
\* microseconds and nanoseconds, and returns a reading whose year lies in
\* [1970, 2100] and whose distance to now (in whole seconds) is least among
\* those in range; when none is in range it returns the seconds reading.
C10_UnixTimeUnit ==
  (pc = "lib" /\ lib.parser = "UnixTime") =>
    \A r \in lib.parsed :
      r.ok =>
        LET v == DecValue(lib.input)
            nowSec == DivPow10(lib.now, 3).q
            unit == <<"seconds", "milliseconds", "microseconds", "nanoseconds">>
            reading == <<UnixSeconds(v), UnixMilli(v), UnixMicro(v), UnixNano(v)>>
            inRange == {i \in 1..4 : Less(reading[i].sec, Year2101)}
            distance(i) == AbsDiff(reading[i].sec, nowSec)
        IN IF inRange = {}
             THEN r.info.Extra.unit = "seconds" /\ r.info.DateTime = {reading[1]}
             ELSE \E i \in inRange :
                    /\ r.info.Extra.unit = unit[i]
                    /\ r.info.DateTime = {reading[i]}
                    /\ \A j \in inRange : Leq(distance(i), distance(j))

\* C11 as stated: at every clock reading, UnixTime.Parse of "1609459200"
\* returns the unit "seconds" and the DateTime 2021-01-01T00:00:00Z.
C11_LiteralIsSecondsAtEveryClock ==
  (pc = "lib" /\ lib.parser = "UnixTime" /\ lib.input = Chars("1609459200")) =>
    \A r \in lib.parsed :
      /\ r.ok
      /\ r.info.Extra.unit = "seconds"
      /\ r.info.DateTime = {Time(Num(1609459200), 0)}

\* C11, amended: UnixTime.Parse of "1609459200" returns the unit "seconds"
\* and the DateTime 2021-01-01T00:00:00Z at every clock reading from
\* 1995-07-12T07:32:10Z (Unix second 805534330) on; at an earlier reading
\* another unit's reading, in January 1970, is nearer to the clock and is
\* returned.
C11_LiteralIsSecondsFrom1995 ==
  (pc = "lib" /\ lib.parser = "UnixTime" /\ lib.input = Chars("1609459200")) =>
    \A r \in lib.parsed :
      /\ r.ok
      /\ IF Leq(Num(805534330), DivPow10(lib.now, 3).q)
           THEN /\ r.info.Extra.unit = "seconds"
                /\ r.info.IDType = "Unix timestamp (seconds)"
                /\ r.info.DateTime = {Time(Num(1609459200), 0)}
           ELSE /\ r.info.Extra.unit # "seconds"
                /\ \A d \in r.info.DateTime : Less(d.sec, Num(1609460))

\* the literal parsed in the first second at which the seconds reading wins
C11_Witness ==
  /\ pc = "lib" /\ lib.parser = "UnixTime" /\ lib.input = Chars("1609459200")
  /\ lib.now = DecValue(Chars("805534330000"))
  /\ \E r \in lib.parsed : r.ok /\ r.info.Extra.unit = "seconds"

\* C12 as stated: two concurrent Generate calls of SCRU128 return what two
\* calls run one after the other return: different identifiers, carrying the
\* two next values of the counter, which ends at the second of them.
C12_ConcurrentGenerateAsAlone ==
  (/\ pc = "go"
   /\ \A g \in 1..2 : goroutines[g].parser = "SCRU128" /\ goroutines[g].pc = "done") =>
    /\ goroutines[1].out # goroutines[2].out
    /\ scru128Sequence = 2
    /\ \E first \in 1..2 :
         /\ goroutines[first].out = SCRU128Generate(goroutines[first].now, 1)
         /\ goroutines[3 - first].out = SCRU128Generate(goroutines[3 - first].now, 2)

C14_FormulaGeneratorsAreDeterministic ==
  /\ (pc = "lib" /\ lib.parser = "Sqids") =>
       \A i \in 1..Len(lib.history) :
         /\ lib.history[i].id = lib.history[1].id
         /\ SqidsDecode(lib.history[i].id) = <<Num(42), Num(123), Num(7890)>>
  /\ (pc = "exit" /\ exit.code = 0 /\ exit.msg = "Sqids") =>
       SqidsDecode(exit.out) = <<Num(42), Num(123), Num(7890)>>
  /\ (pc = "lib" /\ lib.version \in {Chars("v3"), Chars("v5")}) =>
       /\ \A i \in 1..Len(lib.history) : lib.history[i].id = lib.history[1].id
       /\ \A now \in GenClocks, rnd \in RandomDraws("UUID") :
            /\ generateUUIDWithVersion(lib.version, now, rnd).id = lib.history[1].id
            /\ generateUUIDWithVersion(Chars("v3"), now, rnd).id
                 # generateUUIDWithVersion(Chars("v5"), lib.now, rnd).id

\* three calls for v3, the last at another clock reading than the first
C14_Witness ==
  /\ pc = "lib"
  /\ lib.version = Chars("v3")
  /\ Len(lib.history) = 3
  /\ lib.history[1].now # lib.history[3].now

\* C15 as stated: a Parse call returns what a Parse call on the same input
\* returns at any other reading of the system clock.
C15_ParseIsFunctionOfInput ==
  (pc = "lib" /\ lib.parsed # {}) =>
    \A now \in Clocks : Parse(lib.parser, lib.input, now) \in lib.parsed

\* C15, amended: for every decoder but UnixTime and SCRU128 a Parse call
\* returns what a Parse call on the same input returns at any other clock
\* reading, also after a Generate call of the decoder; SCRU128 differs in the
\* timestamp only, which is the clock reading, and UnixTime in nothing but the
\* unit, the format label and the timestamp.
C15_ParseReadsInputAndClock ==
  (pc = "lib" /\ lib.parsed # {}) =>
    \A now \in Clocks : \A q \in lib.parsed :
      LET r == Parse(lib.parser, lib.input, now)
      IN /\ r.ok = q.ok
         /\ r.ok =>
              CASE lib.parser = "SCRU128" ->
                     /\ r.info.DateTime = {UnixMilli(now)}
                     /\ [r.info EXCEPT !.DateTime = {}] = [q.info EXCEPT !.DateTime = {}]
                [] lib.parser = "UnixTime" ->
                     /\ r.info.Standard = q.info.Standard
                     /\ r.info.Size = q.info.Size
                     /\ r.info.Entropy = q.info.Entropy
                     /\ now = lib.now => r = q
                [] OTHER -> r = q

\* a SCRU128 string decoded at the first clock reading
C15_Witness ==
  /\ pc = "lib" /\ lib.parser = "SCRU128"
  /\ lib.now = DecValue(Chars(ClockList[1]))
  /\ \E q \in lib.parsed : q.ok /\ q.info.DateTime = {UnixMilli(lib.now)}

\* C16: for every input a fixed-width binary decoder (UUID, ULID, ObjectId,
\* KSUID, Xid, TSID, Snowflake, SCRU128) accepts, the Size of the result is
\* eight times the number of bytes of its Binary, small numeric values with
\* leading zero bytes included.
C16_SizeIsEightTimesBinaryLength ==
  (pc = "lib" /\ lib.parser \in FixedWidth /\ lib.can = {TRUE}) =>
    \A r \in lib.parsed :
      r.ok => r.info.Size = 8 * BinaryLen(lib.parser, lib.input)

\* C17: for every hex string HashHex.Parse accepts, the label is the table
\* entry of its length in characters (32 MD5, 40 SHA-1, 56 SHA-224, 64
\* SHA-256, 96 SHA-384, 128 SHA-512) and for every other length the generic
\* label with N = 4 x length bits; Size and Entropy are 4 x length and the
\* canonical string is the upper-cased input.
C17_HashHexClassification ==
  (pc = "lib" /\ lib.parser = "HashHex") =>
    \A r \in lib.parsed :
      r.ok =>
        LET n == Len(lib.input)
        IN /\ r.info.IDType =
                CASE n = 32 -> <<"Hex-encoded MD5">>
                  [] n = 40 -> <<"Hex-encoded SHA-1">>
                  [] n = 56 -> <<"Hex-encoded SHA-224">>
                  [] n = 64 -> <<"Hex-encoded SHA-256">>
                  [] n = 96 -> <<"Hex-encoded SHA-384">>
                  [] n = 128 -> <<"Hex-encoded SHA-512">>
                  [] OTHER -> <<"Hex-encoded Hash (%d bits)", 4 * n>>
           /\ r.info.Size = 4 * n
           /\ r.info.Entropy = {4 * n}
           /\ r.info.Standard = ToUpper(lib.input)

\* a SHA-384 digest in lower case decoded by HashHex
C17_Witness ==
  /\ pc = "lib" /\ lib.parser = "HashHex" /\ Len(lib.input) = 96
  /\ \E r \in lib.parsed :
       r.ok /\ r.info.IDType = <<"Hex-encoded SHA-384">> /\ r.info.Standard # lib.input

\* -g names no generator: no version of generateUUIDWithVersion after
\* "uuid:", no decoder of the registry otherwise
UnknownGenerate(g) ==
  IF HasUUIDPrefix(g) THEN ToLower(SubSeq(g, 6, Len(g))) \notin UUIDVersions
  ELSE \A p \in Decoders : ToLower(Chars(p)) # ToLower(g)

TimeOrdered == {"ULID", "KSUID", "Xid", "SCRU128", "TSID"}

\* Time.Before for times at or after 1970
TimeBefore(a, b) == Less(a.sec, b.sec) \/ (a.sec = b.sec /\ a.nsec < b.nsec)

\* C19: the identifiers that consecutive Generate calls of a time-ordered
\* format (ULID, KSUID, Xid, SCRU128, TSID) return under a strictly
\* increasing clock are in non-decreasing lexicographic order, and their
\* decoded timestamps increase in the same order, each being derived from
\* the string and not from the time of decoding. (The time of a TSID is
\* extracted inside its library: its strings are compared only.)
C19_TimeOrderedGeneratorsSort ==
  (pc = "lib" /\ lib.parser \in TimeOrdered) =>
    \A i, j \in 1..Len(lib.history) :
      (i < j /\ \A k \in i..(j - 1) : Less(lib.history[k].now, lib.history[k + 1].now)) =>
        /\ LexLeq(lib.history[i].id, lib.history[j].id, AsciiSeq)
        /\ lib.parser # "TSID" =>
             \A ni, nj \in ParseClocksOf(lib.parser) :
               LET ri == Parse(lib.parser, lib.history[i].id, ni)
                   rj == Parse(lib.parser, lib.history[j].id, nj)
               IN /\ ri.ok /\ rj.ok
                  /\ \A ti \in ri.info.DateTime, tj \in rj.info.DateTime : TimeBefore(ti, tj)
                  /\ ri.info.DateTime # {} /\ rj.info.DateTime # {}
                  /\ ri.info.DateTime = Parse(lib.parser, lib.history[i].id, nj).info.DateTime

\* C20: for every decimal n that Snowflake.CanParse accepts (10 to 19 digits
\* that fit 64 bits unsigned, n >= 2^63 included), Parse returns the sequence
\* n mod 4096, the node (n / 4096) mod 1024, and the timestamp 1288834974657
\* ms plus floor(n / 2^22), a value of 41 bits, so that the three fields
\* recompose n.
C20_SnowflakeFieldsRecompose ==
  (pc = "lib" /\ lib.parser = "Snowflake" /\ lib.can = {TRUE}) =>
    \A r \in lib.parsed :
      LET n == DecValue(lib.input)
          sequence == DivMod(n, 4096).r
          nodeId == DivMod(DivMod(n, 4096).q, 1024).r
          time == DivMod(DivMod(n, 4096).q, 1024).q
      IN /\ r.ok
         /\ r.info.Extra.sequence_number = sequence
         /\ r.info.Extra.node_id = nodeId
         /\ r.info.DateTime = {UnixMilli(Add(time, DecValue(Chars("1288834974657"))))}
         /\ Less(time, DecValue(Chars("2199023255552")))
         /\ Add(ShiftLeft(time, 22), Num(nodeId * 4096 + sequence)) = n

\* the decoders whose tests assert that an accepted input is decoded
AcceptanceTested == {"Snowflake", "UnixTime", "NanoID", "CUID", "SCRU128", "Xid", "TSID"}

Priority ==
  {<<"TypeID", "NanoID">>, <<"NUID", "ShortUUID">>, <<"ShortUUID", "Sqids">>,
   <<"Sqids", "NanoID">>}

\* C22: NanoID.CanParse accepts every input that TypeID.CanParse accepts, and
\* in an auto-detect result with both interpretations the TypeID one comes
\* before the NanoID one; likewise NUID before ShortUUID, ShortUUID before
\* Sqids, and Sqids before NanoID.
C22_RegistryPriority ==
  /\ (pc = "lib" /\ lib.parser = "TypeID" /\ lib.can = {TRUE}) =>
       CanParse("NanoID", lib.input)
  /\ (pc = "parsed" /\ forceFormat = <<>>) =>
       /\ CanParse("TypeID", id) => CanParse("NanoID", id)
       /\ \A pair \in Priority :
          \A i, j \in 1..Len(results) :
            (results[i].Parser = pair[1] /\ results[j].Parser = pair[2]) => i < j

\* an auto-detect run whose result holds a TypeID and a NanoID interpretation
C22_Witness ==
  /\ pc = "parsed" /\ forceFormat = <<>>
  /\ {"TypeID", "NanoID"} \subseteq {results[k].Parser : k \in 1..Len(results)}

\* hex.DecodeString of an even number of lower-case hexadecimal characters
DecodeString(h) ==
  [i \in 1..(Len(h) \div 2) |->
     16 * IndexOf(HexLowerSeq, h[2 * i - 1]) + IndexOf(HexLowerSeq, h[2 * i])] \o <<>>

\* info.Binary of the result of Parse of ObjectID or Xid
Binary12(p, x) == IF p = "ObjectID" THEN ObjectIDBytes(x) ELSE XidBytes(x)

\* C23: for every accepted ObjectId and Xid, the timestamp is the big-endian
\* value of bytes 0-3 in seconds, Node1 is the hexadecimal of bytes 4-6 (6
\* characters), Node2 that of bytes 7-8 (4 characters), Sequence the
\* big-endian value of bytes 9-11, within [0, 16777215], and the four fields
\* put one after the other are the 12 bytes of Binary.
C23_ComponentSlicing ==
  (pc = "lib" /\ lib.parser \in {"ObjectID", "Xid"} /\ lib.can = {TRUE}) =>
    \A r \in lib.parsed :
      LET binary == Binary12(lib.parser, lib.input)
          seconds == FromBytes(SubSeq(binary, 1, 4))
          node1 == r.info.Extra.machine_bytes
          node2 == r.info.Extra.process_bytes
          sequence == r.info.Extra.counter_value
      IN /\ r.ok
         /\ Len(binary) = 12
         /\ r.info.DateTime = {UnixSeconds(seconds)}
         /\ node1 = EncodeToString(SubSeq(binary, 5, 7)) /\ Len(node1) = 6
         /\ node2 = EncodeToString(SubSeq(binary, 8, 9)) /\ Len(node2) = 4
         /\ Num(sequence) = FromBytes(SubSeq(binary, 10, 12))
         /\ sequence \in 0..16777215
         /\ ToBytes(seconds, 4) \o DecodeString(node1) \o DecodeString(node2)
              \o ToBytes(Num(sequence), 3) = binary

\* a client's Xid.Parse has decoded "9m4e2mr0ui3e8a215n4g", the bytes 4d 88 e1
\* 5b 60 f4 86 e4 28 41 2d c9: second 1300816219, machine 60f486, process
\* e428, counter 4271561
C23_Witness ==
  /\ pc = "lib" /\ lib.parser = "Xid" /\ lib.can = {TRUE}
  /\ \E r \in lib.parsed :
       /\ r.ok
       /\ r.info.DateTime = {UnixSeconds(Num(1300816219))}
       /\ r.info.Extra.machine_bytes = Chars("60f486")
       /\ r.info.Extra.process_bytes = Chars("e428")
       /\ r.info.Extra.counter_value = 4271561

\* what the lines of a comparison are checked against: the results with a
\* DateTime, and the order of the lines
ComparisonListsDated(lines) ==
  /\ Len(lines) = Cardinality({k \in 1..Len(results) : results[k].DateTime # {}})
  /\ \A k \in 1..Len(results) :
       results[k].DateTime # {} =>
         \E i \in 1..Len(lines) :
           /\ lines[i].format = results[k].IDType
           /\ lines[i].timestamp = DateTimeOf(results[k])
  /\ \A i, j \in 1..Len(lines) : i < j => ~Before(lines[j].timestamp, lines[i].timestamp)

\* C24 as stated: ShowComparison lists exactly the results that carry a
\* DateTime, in ascending order of time; an entry within one minute of the
\* current time, strictly, is marked as Now, and every entry after the current
\* time is marked "(future)".
C24_EveryFutureEntryMarked ==
  (pc = "exit" /\ exit.msg = "comparison") =>
    /\ ComparisonListsDated(exit.out.lines)
    /\ \A i \in 1..Len(exit.out.lines) :
         LET line == exit.out.lines[i]
         IN /\ WithinMinute(exit.out.now, line.timestamp) => line.suffix = " --- Now ---"
            /\ Before(exit.out.now, line.timestamp) => line.suffix = " (future)"

\* C24: ShowComparison lists exactly the results that carry a DateTime, in
\* ascending order of time; an entry within one minute of the current time,
\* strictly, is marked as Now, and every entry after the current time that is
\* not within one minute of it is marked "(future)".
C24_NowReplacesFuture ==
  (pc = "exit" /\ exit.msg = "comparison") =>
    /\ ComparisonListsDated(exit.out.lines)
    /\ \A i \in 1..Len(exit.out.lines) :
         LET line == exit.out.lines[i]
         IN /\ WithinMinute(exit.out.now, line.timestamp) => line.suffix = " --- Now ---"
            /\ (Before(exit.out.now, line.timestamp)
                  /\ ~WithinMinute(exit.out.now, line.timestamp))
                 => line.suffix = " (future)"

\* a comparison of times that the results hold in another order, one of
\* them ahead of the clock by less than a minute
C24_Witness ==
  /\ pc = "exit" /\ exit.msg = "comparison"
  /\ Len(exit.out.lines) >= 2
  /\ \E i \in 1..Len(exit.out.lines) :
       /\ Before(exit.out.now, exit.out.lines[i].timestamp)
       /\ WithinMinute(exit.out.now, exit.out.lines[i].timestamp)
  /\ \E i, j \in 1..Len(results) :
       /\ i < j /\ results[i].DateTime # {} /\ results[j].DateTime # {}
       /\ Before(DateTimeOf(results[j]), DateTimeOf(results[i]))

\* the alphabet sizes of the formats whose identifier is its own text
AlphabetSize == [NanoID |-> 64, Base58 |-> 58, Base32 |-> 32, Sqids |-> 62]

\* a ^ k for a of AlphabetSize, two factors at a step
RECURSIVE Power(_, _, _)
Power(a, k, acc) ==
  IF k = 0 THEN acc
  ELSE IF k = 1 THEN MulAdd(acc, a, 0)
  ELSE LET next == MulAdd(acc, a * a, 0)
       IN IF Len(next) > 0 THEN Power(a, k - 2, next) ELSE <<>>

\* e is length * log2(a) rounded to an adjacent integer:
\* 2^(e-1) < a^length < 2^(e+1)
AdjacentToLog2(e, a, length) ==
  /\ e >= 1
  /\ Less(ShiftLeft(<<1>>, e - 1), Power(a, length, <<1>>))
  /\ Less(Power(a, length, <<1>>), ShiftLeft(<<1>>, e + 1))

\* C25: for every accepted input of NanoID, Base58, Base32 and Sqids, Entropy
\* is the length times log2 of the alphabet size (64, 58, 32 and 62), rounded
\* to an adjacent integer; the length of a Base32 input is counted without its
\* '=' padding.
C25_EntropyIsLengthTimesLog2 ==
  (pc = "lib" /\ lib.parser \in DOMAIN AlphabetSize /\ lib.can = {TRUE}) =>
    \A r \in lib.parsed :
      /\ r.ok
      /\ \E e \in r.info.Entropy :
           AdjacentToLog2(e, AlphabetSize[lib.parser],
                          IF lib.parser = "Base32" THEN Len(TrimRight(lib.input, {"="}))
                          ELSE Len(lib.input))

\* C26: for every generation time t, in milliseconds, between 2000-01-01 and
\* 2100-01-01, Parse of the string that PushID.Generate returned at t
\* succeeds with the DateTime t: extractTimestamp of the 8 characters that
\* Generate wrote is the value that was encoded.
C26_PushIDTimestampRoundTrip ==
  (/\ pc = "lib" /\ lib.parser = "PushID" /\ lib.generated = 1
   /\ Leq(year2000, lib.now) /\ Leq(lib.now, year2100)) =>
    /\ extractTimestamp(SubSeq(lib.input, 1, 8)) = lib.now
    /\ \A r \in lib.parsed : r.ok /\ r.info.DateTime = {UnixMilli(lib.now)}

\* C27: decodeBase58(encodeBase58(b)) = b for every non-empty byte sequence b,
\* with leading zero bytes or of zero bytes only, and
\* encodeBase58(decodeBase58(s)) = s for every string s that Base58.Parse
\* accepts.
C27_Base58CodecRoundTrip ==
  /\ pc = "codec" => lib.decoded = {lib.data}
  /\ (pc = "lib" /\ lib.parser = "Base58" /\ lib.can = {TRUE}) =>
       \A r \in lib.parsed :
         r.ok => encodeBase58(decodeBase58(lib.input)) = lib.input

\* the instant of the integer v in a unit
InstantOf(v, unit) ==
  CASE unit = "seconds" -> UnixSeconds(v)
    [] unit = "milliseconds" -> UnixMilli(v)
    [] unit = "microseconds" -> UnixMicro(v)
    [] unit = "nanoseconds" -> UnixNano(v)

\* C28: for every input that UnixTime.CanParse accepts ("0" or 10 to 19
\* digits that fit 64 bits unsigned, 2^63 and more included), the DateTime
\* returned is the instant of exactly the input integer in the unit chosen,
\* Integer is the input, and Hex is the input integer in 16 hexadecimal
\* digits.
C28_UnixTimeValueFidelity ==
  (pc = "lib" /\ lib.parser = "UnixTime" /\ lib.can = {TRUE}) =>
    \A r \in lib.parsed :
      /\ r.ok
      /\ r.info.DateTime = {InstantOf(DecValue(lib.input), r.info.Extra.unit)}
      /\ r.info.Standard = lib.input
      /\ UnixTimeHex(lib.input) = FormatHex(DecValue(lib.input), 16)

\* C29: in every result that a decoder returns for an input it accepts, an
\* Entropy that is present is at least 0 and at most Size.
C29_EntropyWithinSize ==
  (pc = "lib" /\ lib.can = {TRUE}) =>
    \A r \in lib.parsed :
      r.ok => \A e \in r.info.Entropy : 0 <= e /\ e <= r.info.Size

\* C30 as stated: for every decoder D, auto-detecting the string D.Generate
\* returned gives a non-empty list whose first element is D's interpretation
\* of the string.
C30_GeneratedDetectedAsOwnFormat ==
  pc = "detected" =>
    \A list \in lib.detected :
      /\ list # <<>>
      /\ list[1] = Parse(lib.parser, lib.input, lib.now).info

====
